---- MODULE Spec2Model ----
(***************************************************************************)
(* Model of the intercepting gateway of panel.py: the pending-approval     *)
(* registry, the proxy handler (Handler._proxy_request), the decision      *)
(* endpoints (Handler._pending_decide), the forwarders and the turn        *)
(* ledger.  One gateway worker thread per exchange; each `with STATE.lock` *)
(* block of the source is one atomic step.                                 *)
(***************************************************************************)
EXTENDS Integers, Sequences, FiniteSets, TLC

\* ------------------------------------------------------------------ bounds
NumExchanges == 2      \* concurrent POST /v1/... requests
MaxClock == 1          \* millisecond clock values 0..MaxClock seen by time.time()
MaxStream == 2         \* content deltas one streamed backend response may carry
NumObservers == 2      \* GET /events connections
NumPublishers == 2     \* threads that call STATE.broadcast
MaxBroadcasts == 1     \* broadcasts each of those threads makes
MaxText == 3           \* length of the texts given to the continuity check
MaxSkipped == 1        \* corrupt frames one streamed backend response may carry

W == 1..NumExchanges
Observers == 1..NumObservers
Publishers == 1..NumPublishers
Ids == 0..MaxClock

\* ------------------------------------------------------------------ texts
\* A text is a sequence of characters.
TA == <<"a">>
TNo == <<"n", "o">>
TB == <<"b">>
TAB == <<"a", "b">>
Empty == <<>>

\* str.startswith
StartsWith(s, p) == Len(p) <= Len(s) /\ SubSeq(s, 1, Len(p)) = p

Min(a, b) == IF a <= b THEN a ELSE b

\* ------------------------------------------------------------------ bytes
\* A byte string is a record [k, t, m, s]:
\*   k = "empty"      b""
\*   k = "junk"       bytes that are not a JSON object
\*   k = "req"        a chat request object: last user text t, model m,
\*                    s = "on" when "stream": true and stream_options are set,
\*                    s = "raw" as the caller serialized it (no stream flag),
\*                    s = "dump" the same object re-serialized by _json_bytes
\*   k = "reqbad"     a JSON object whose user content makes _extract_user raise
\*   k = "completion" a chat completion object with message content t, model m
\*   k = "respbad"    a JSON object whose choices[0] is not an object
\*   k = "errjson"    {"error": ...}
Bytes(k, t, m, s) == [k |-> k, t |-> t, m |-> m, s |-> s]
EmptyBytes == Bytes("empty", Empty, "", "")
Junk == Bytes("junk", Empty, "", "")
Request(t) == Bytes("req", t, "m", "raw")
ReqBad == Bytes("reqbad", Empty, "m", "raw")
RespBad == Bytes("respbad", Empty, "", "")
\* a text/event-stream reply body, as the backend sends it
EventStream == Bytes("sse", Empty, "", "")
ErrJson == Bytes("errjson", Empty, "", "")

\* The outcome of a call that can raise: ok = FALSE stands for the exception.
Raised == [ok |-> FALSE, user_text |-> Empty, vlm_text |-> Empty, parse_error |-> ""]

\* _read_json: None unless the bytes decode to a JSON object
IsJsonObject(raw) == raw.k \in {"req", "reqbad", "completion", "respbad", "errjson"}

\* _parse_req
ParseReq(raw) ==
  IF ~IsJsonObject(raw)
    THEN [ok |-> TRUE, user_text |-> Empty, vlm_text |-> Empty, parse_error |-> "Bad JSON"]
    ELSE IF raw.k = "reqbad"
      THEN Raised
      ELSE [ok |-> TRUE, user_text |-> (IF raw.k = "req" THEN raw.t ELSE Empty),
            vlm_text |-> Empty, parse_error |-> ""]

\* _parse_resp
ParseRespNoRaise(raw) ==
  IF ~IsJsonObject(raw)
    THEN [ok |-> TRUE, user_text |-> Empty, vlm_text |-> Empty, parse_error |-> "Bad JSON"]
    ELSE [ok |-> TRUE, user_text |-> Empty,
          vlm_text |-> (IF raw.k = "completion" THEN raw.t ELSE Empty), parse_error |-> ""]

ParseResp(raw) ==
  IF raw.k = "respbad" THEN Raised ELSE ParseRespNoRaise(raw)

\* _completion
Completion(content, model) == Bytes("completion", content, model, "")

\* _enable_stream_request
EnableStreamRequest(raw) ==
  IF ~IsJsonObject(raw) THEN raw ELSE [raw EXCEPT !.s = "on"]

\* (variant of FirstDiff: a proper prefix gives the longer length)
FirstDiffLonger(p, c) ==
  LET ml == Min(Len(p), Len(c))
      D == {i \in 1..ml : p[i] # c[i]}
  IN IF D = {} THEN Len(p) + Len(c) - ml ELSE (CHOOSE i \in D : \A j \in D : i <= j) - 1

\* _sst_check: last is <<>> for None and <<p>> for the text p
FirstDiff(p, c) ==
  LET ml == Min(Len(p), Len(c))
      D == {i \in 1..ml : p[i] # c[i]}
  IN IF D = {} THEN ml ELSE (CHOOSE i \in D : \A j \in D : i <= j) - 1

SstCheck(last, cur) ==
  IF last = <<>>
    THEN [verified |-> TRUE, match |-> TRUE, prev_available |-> FALSE,
          detail |-> <<"First turn">>]
    ELSE IF StartsWith(cur, last[1])
      THEN [verified |-> TRUE, match |-> TRUE, prev_available |-> TRUE,
            detail |-> <<"Prefix match", Len(last[1])>>]
      ELSE [verified |-> TRUE, match |-> FALSE, prev_available |-> TRUE,
            detail |-> <<"VIOLATION pos", FirstDiff(last[1], cur), Len(cur), Len(last[1])>>]

\* ------------------------------------------------------------------ inputs
\* settings.load: the three switches _proxy_request reads
Cfg(fw, auto, stream) ==
  [firewall_enabled |-> fw, auto_approve |-> auto, stream_to_panel |-> stream]
AllCfgs == {Cfg(fw, auto, stream) : fw \in BOOLEAN, auto \in BOOLEAN, stream \in BOOLEAN}
\* DEFAULT_CONFIG
DefaultCfg == Cfg(FALSE, TRUE, FALSE)
\* Request bodies a caller may post.
RawReqs == {Request(TA), Junk, ReqBad}
\* Bodies an operator may post to the decision endpoints.
Messages == {Empty, TNo}
EditedRequest == Request(TAB)
RawRequestEdits == {EmptyBytes, EditedRequest, ReqBad}
EditedResponse == Bytes("completion", TAB, "op", "")
RawResponseEdits == {EmptyBytes, EditedResponse, RespBad}
\* What a backend call can come back with: a 2xx reply, a non-2xx reply
\* (urllib raises HTTPError) whose body can be read or breaks off while it is
\* read, or no reply at all (URLError, timeout).
BackendReplies ==
  { [kind |-> "ok", status |-> 200, body |-> Completion(TA, "up")],
    [kind |-> "ok", status |-> 200, body |-> RespBad],
    [kind |-> "http_error", status |-> 500, body |-> Junk],
    [kind |-> "http_error_cut", status |-> 500, body |-> EmptyBytes],
    [kind |-> "no_reply", status |-> 0, body |-> EmptyBytes] }
\* The same, plus a reply whose Content-Type is text/event-stream.
StreamReplies ==
  BackendReplies \cup {[kind |-> "sse", status |-> 200, body |-> EventStream]}
\* One server-sent event of a streamed reply.
\* kind "delta" is a JSON object (with content t, model name and finish
\* reason fr, each possibly empty), "malformed" a payload that is not JSON,
\* "nonobject" JSON that is not an object, "done" the [DONE] terminator,
\* "eof" the end of the stream, "abort" a read that raises.
StreamEvents ==
  { [kind |-> "delta", t |-> TA, model |-> "up", fr |-> ""],
    [kind |-> "delta", t |-> Empty, model |-> "", fr |-> "length"],
    [kind |-> "malformed", t |-> Empty, model |-> "", fr |-> ""],
    [kind |-> "nonobject", t |-> Empty, model |-> "", fr |-> ""],
    [kind |-> "done", t |-> Empty, model |-> "", fr |-> ""],
    [kind |-> "eof", t |-> Empty, model |-> "", fr |-> ""],
    [kind |-> "abort", t |-> Empty, model |-> "", fr |-> ""] }

\* ex[e].log is what worker e has done so far, in order: the events it has
\* broadcast (turn_started, pending_created_*, stream_delta, stream_done,
\* the last being the stream_delta with done set; ex[e].deltas holds the
\* stream_delta messages themselves),
\* turn_completed), popped_* when it has popped an item after its release,
\* turn_appended, response_sent, error_500.
\* ------------------------------------------------------------------ state
VARIABLES
  clock,          \* int(time.time() * 1000) as last read
  last_vlm_text,  \* STATE.last_vlm_text: <<>> is None
  pending,        \* STATE.pending: id -> reference to a PendingItem
  items,          \* the PendingItem objects of each worker, by stage
  ex,             \* the local variables of each _proxy_request call
  turns,          \* STATE.turns: id -> <<TurnItem>> or <<>>
  turn_index,     \* STATE.turn_index, head first
  ledger,         \* the lines of turns.jsonl
  updated,        \* ids for which pending_updated has been broadcast
  sse_clients,    \* STATE.sse_clients: the registered observers' queues, in order
  queues,         \* the queue.Queue of each observer: the messages not yet taken
  obs,            \* each _handle_sse call: its position and what it has written
  pub,            \* each thread inside STATE.broadcast: the locals of its pass
  calc,           \* one call of a pure function: its arguments and its result
  shutdown,       \* STATE.shutdown: is the event set
  main_proc,      \* STATE.main_proc: 0 is None, else the number of a process
  procs,          \* the agent-loop processes started so far, in order
  runner,         \* the _run_main thread: its position and its Popen calls
  stopper,        \* the main thread: its position in main()'s finally block
  lock,           \* STATE.lock: 0 is free, else the thread that holds it
  sse_lock,       \* STATE.sse_lock: 0 is free, else the thread that holds it
  thr,            \* each thread: the statements it runs and its position in them
  registered,     \* the items in STATE.pending, as <<worker thread, stage>>
  released,       \* the items whose release event is set
  marker,         \* the file PAUSED of the run directory: is it present
  agent,          \* main.py's loop: its position, fails and the turns so far
  notices         \* the paused / unpaused events published, in order

gateway == <<clock, last_vlm_text, pending, items, ex, turns, turn_index, ledger, updated>>
hub == <<sse_clients, queues, obs, pub>>
daemon == <<shutdown, main_proc, procs, runner, stopper>>
locks == <<lock, sse_lock, thr, registered, released>>
loop == <<marker, agent, notices>>
vars == <<clock, last_vlm_text, pending, items, ex, turns, turn_index, ledger, updated,
          sse_clients, queues, obs, pub, calc,
          shutdown, main_proc, procs, runner, stopper,
          lock, sse_lock, thr, registered, released,
          marker, agent, notices>>

NoRef == <<0, "none">>
Ref(e, stage) == <<e, stage>>

\* Decision() and PendingItem(...) as constructed: action hold, nothing set
NewItem ==
  [action |-> "hold", message |-> Empty, raw_request |-> EmptyBytes,
   raw_response |-> EmptyBytes, event |-> FALSE,
   view |-> [set |-> FALSE, vlm_text |-> Empty, streaming |-> FALSE, done |-> FALSE]]

\* threads running statements that take the locks: gateway workers, then
\* one thread making decision calls and one calling the listing endpoints
NumLockWorkers == 2
LockWorkers == 1..NumLockWorkers
Decider == NumLockWorkers + 1
Lister == NumLockWorkers + 2
Threads == 1..(NumLockWorkers + 2)
\* one more thread: a GET /events handler, the heartbeat, the supervisor or
\* the main thread in _stop_main
Aux == NumLockWorkers + 3
AllThreads == 1..(NumLockWorkers + 3)

\* a thread that runs nothing yet
NewThread ==
  [prog |-> "none", pc |-> 1, target |-> <<0, "none">>, found |-> <<0, "none">>]

\* _run_main before its first test of the shutdown event
NewRunner == [pc |-> "check", attempts |-> 0]

\* main() inside srv.serve_forever(): p is _stop_main's local
NewStopper == [pc |-> "serving", p |-> 0]

\* _handle_sse before sse_register: nothing written to the client yet
NewObserver == [pc |-> "new", seen |-> <<>>]

\* a thread outside STATE.broadcast; sent counts the broadcasts it has made
NewPublisher == [pc |-> "idle", sent |-> 0, clients |-> <<>>, i |-> 1, dead |-> {}]

NoSst == [verified |-> FALSE, match |-> FALSE, prev_available |-> FALSE, detail |-> <<>>]

NewExchange ==
  [pc |-> "idle", req_id |-> 0,
   firewall_enabled |-> FALSE, auto_approve |-> FALSE, stream_to_panel |-> FALSE,
   raw_req |-> EmptyBytes, raw_sent |-> EmptyBytes, sst |-> NoSst,
   status |-> 0, raw_resp |-> EmptyBytes, error |-> "",
   full_text |-> Empty, model |-> "", finish_reason |-> "", skipped |-> 0,
   sent |-> <<>>, reply_in |-> <<>>, reply |-> <<>>, log |-> <<>>,
   deltas |-> <<>>]

\* the gateway and the hub as constructed
InitState ==
  /\ clock = 0
  /\ last_vlm_text = <<>>
  /\ pending = [i \in Ids |-> NoRef]
  /\ items = [e \in W |-> [request |-> NewItem, response |-> NewItem]]
  /\ ex = [e \in W |-> NewExchange]
  /\ turns = [i \in Ids |-> <<>>]
  /\ turn_index = <<>>
  /\ ledger = <<>>
  /\ updated = {}
  /\ sse_clients = <<>>
  /\ queues = [o \in Observers |-> <<>>]
  /\ obs = [o \in Observers |-> NewObserver]
  /\ pub = [p \in Publishers |-> NewPublisher]
  /\ shutdown = FALSE
  /\ main_proc = 0
  /\ procs = <<>>
  /\ runner = NewRunner
  /\ stopper = NewStopper
  /\ lock = 0
  /\ sse_lock = 0
  /\ thr = [t \in AllThreads |-> NewThread]
  /\ registered = {}
  /\ released = {}

\* no pure function under test
NoCall == [fn |-> "none", args |-> <<>>, out |-> <<>>]

\* main.py as started in a new run directory: _load_state finds no
\* state.json (fails = 0) and there is no PAUSED file
NewAgent ==
  [pc |-> "top", fails |-> 0, turn |-> 0, infers |-> 0,
   executed |-> FALSE, malformed |-> FALSE]

InitLoop ==
  /\ marker = FALSE
  /\ agent = NewAgent
  /\ notices = <<>>

Init == InitState /\ calc = NoCall /\ InitLoop

\* (variant of Gated: auto-approve is not looked at)
GatedByFirewallAlone(x) == x.firewall_enabled

\* cfg.firewall_enabled and not cfg.auto_approve
Gated(x) == x.firewall_enabled /\ ~x.auto_approve

\* ------------------------------------------------------------------ helpers
Append1(x, tag) == [x EXCEPT !.log = Append(@, tag)]

\* (variant of Fail500: the exception ends the handler with no reply)
FailSilent(x) ==
  [x EXCEPT !.pc = "failed", !.log = Append(@, "error_500")]

\* do_POST's except branch: the exception becomes a 500 for this request
Fail500(x) ==
  [x EXCEPT !.pc = "failed", !.log = Append(@, "error_500"),
            !.reply = <<[status |-> 500, body |-> Junk]>>]

\* STATE.pending[req_id] = item
RegistryPut(reg, id, ref) == [reg EXCEPT ![id] = ref]

\* STATE.pending.pop(req_id, None)
RegistryPop(reg, id) == [reg EXCEPT ![id] = NoRef]

\* the loop over STATE.turn_index that rewrites the first slot with this id
IndexUpdate(idx, id, kind, stage, status) ==
  LET hits == {i \in 1..Len(idx) : idx[i].id = id}
  IN IF hits = {} THEN idx
     ELSE LET i == CHOOSE h \in hits : \A g \in hits : h <= g
          IN [idx EXCEPT ![i] = [@ EXCEPT !.kind = kind, !.stage = stage, !.status = status]]

IndexHas(idx, id) == \E i \in 1..Len(idx) : idx[i].id = id

\* e.read() in the HTTPError branch runs outside the try block: when the
\* error reply's body breaks off, its exception leaves the forwarder
ForwardRaises(r) == r.kind = "http_error_cut"

\* (variant of ForwardResult: an HTTP error reply is reported like a
\* transport failure)
ForwardResultMasked(r) ==
  IF r.kind = "ok" THEN [status |-> r.status, body |-> r.body, error |-> ""]
  ELSE [status |-> 502, body |-> ErrJson, error |-> "transport"]

\* the triple _forward and _forward_streaming return for a buffered reply
ForwardResult(r) ==
  IF r.kind = "ok" THEN [status |-> r.status, body |-> r.body, error |-> ""]
  ELSE IF r.kind = "http_error" THEN [status |-> r.status, body |-> r.body, error |-> "http"]
  ELSE [status |-> 502, body |-> ErrJson, error |-> "transport"]

\* str((_read_json(raw2) or {}).get("model", "panel"))
ModelOf(raw) == IF raw.k \in {"req", "reqbad"} THEN raw.m ELSE "panel"

\* the bytes the worker hands to the forwarder
FwdBytes(x) == IF Gated(x) THEN x.raw_sent ELSE x.raw_req

\* (variant of Released: the wait returns whether or not the event is set)
ReleasedAlways(p) == TRUE

\* threading.Event.wait() on the item returns once the event is set
Released(p) == p.event

\* ------------------------------------------------------------------ decisions
\* the body of _pending_decide on the item found in the registry
DecideItem(p, action, message, raw_request, raw_response) ==
  [p EXCEPT !.action = action,
            !.message = IF message # Empty THEN message ELSE @,
            !.raw_request = IF raw_request # EmptyBytes THEN raw_request ELSE @,
            !.raw_response = IF raw_response # EmptyBytes THEN raw_response ELSE @,
            !.event = TRUE]

PendingDecide(pid, action, message, raw_request, raw_response) ==
  LET r == pending[pid] IN
  IF r = NoRef
    THEN UNCHANGED vars
    ELSE /\ items' = [items EXCEPT ![r[1]][r[2]] =
                        DecideItem(@, action, message, raw_request, raw_response)]
         /\ updated' = updated \cup {pid}
         /\ UNCHANGED <<clock, last_vlm_text, pending, ex, turns, turn_index, ledger>>
         /\ UNCHANGED <<hub, calc, daemon, locks, loop>>

\* POST /pending/{id}/approve
Approve(pid) == PendingDecide(pid, "approve", Empty, EmptyBytes, EmptyBytes)
\* POST /pending/{id}/reject
Reject(pid, msg) == PendingDecide(pid, "reject", msg, EmptyBytes, EmptyBytes)
\* POST /pending/{id}/edit_request
EditRequest(pid, raw) == PendingDecide(pid, "edit_request", Empty, raw, EmptyBytes)
\* POST /pending/{id}/edit_response
EditResponse(pid, raw) == PendingDecide(pid, "edit_response", Empty, EmptyBytes, raw)
\* POST /pending/{id}/inject_response
InjectResponse(pid, raw) == PendingDecide(pid, "inject_response", Empty, EmptyBytes, raw)

\* ------------------------------------------------------------------ the proxy handler
\* _proxy_request up to the turn_started broadcast
Enter(e, raws, cfgs) ==
  /\ ex[e].pc = "idle"
  /\ \A d \in W : d < e => ex[d].pc # "idle"
  /\ \E raw \in raws, cfg \in cfgs,
        now \in (IF \A d \in W : ex[d].pc = "idle" THEN {0} ELSE clock..MaxClock) :
       LET parsed_req == ParseReq(raw) IN
       IF ~parsed_req.ok
         THEN /\ ex' = [ex EXCEPT ![e] = Fail500([@ EXCEPT !.raw_req = raw])]
              /\ UNCHANGED clock
         ELSE /\ clock' = now
              /\ ex' = [ex EXCEPT ![e] =
                    [@ EXCEPT !.pc = "entered", !.req_id = now, !.raw_req = raw,
                              !.firewall_enabled = cfg.firewall_enabled,
                              !.auto_approve = cfg.auto_approve,
                              !.stream_to_panel = cfg.stream_to_panel,
                              !.sst = SstCheck(last_vlm_text, parsed_req.user_text),
                              !.log = <<"turn_started">>]]
  /\ UNCHANGED <<last_vlm_text, pending, items, turns, turn_index, ledger, updated>>
  /\ UNCHANGED <<hub, calc, daemon, locks, loop>>

\* the request-stage PendingItem is registered and pending_created published
RegisterRequest(e) ==
  LET x == ex[e] IN
  /\ x.pc = "entered" /\ Gated(x)
  /\ pending' = RegistryPut(pending, x.req_id, Ref(e, "request"))
  /\ turn_index' = <<[id |-> x.req_id, kind |-> "pending", stage |-> "request",
                       status |-> 0]>> \o turn_index
  /\ ex' = [ex EXCEPT ![e] = Append1([@ EXCEPT !.pc = "wait_request"],
                                       "pending_created_request")]
  /\ UNCHANGED <<clock, last_vlm_text, items, turns, ledger, updated>>
  /\ UNCHANGED <<hub, calc, daemon, locks, loop>>

\* (variant of RequestOutcome: a reject is treated like an approve)
RequestOutcomeNoReject(dec, raw_req) ==
  [reject |-> FALSE, status |-> 0, raw_resp |-> EmptyBytes, error |-> "",
   raw_sent |-> IF dec.action = "edit_request" /\ dec.raw_request # EmptyBytes
                  THEN dec.raw_request ELSE raw_req]

\* what the worker does with the released request-stage decision
RequestOutcome(dec, raw_req) ==
  IF dec.action = "reject"
    THEN [reject |-> TRUE, status |-> 200,
          raw_resp |-> Completion(dec.message, "panel-reject"),
          error |-> "rejected_request", raw_sent |-> EmptyBytes]
    ELSE [reject |-> FALSE, status |-> 0, raw_resp |-> EmptyBytes, error |-> "",
          raw_sent |-> IF dec.action = "edit_request" /\ dec.raw_request # EmptyBytes
                         THEN dec.raw_request ELSE raw_req]

\* (variant of PrevForRecheck: the text is not read again when the check made
\* on entry had none)
PrevFromEntry(last_now, x) == IF x.sst.prev_available THEN last_now ELSE <<>>

\* the last-observed text the continuity check is recomputed against
PrevForRecheck(last_now, x) == last_now

\* pending.event.wait() returns; the item is popped and the decision acted on
ReleaseRequest(e) ==
  LET x == ex[e]
      o == RequestOutcome(items[e].request, x.raw_req)
      parsed_sent == ParseReq(o.raw_sent)
  IN
  /\ x.pc = "wait_request"
  /\ Released(items[e].request)
  /\ pending' = RegistryPop(pending, x.req_id)
  /\ ex' = [ex EXCEPT ![e] =
        IF o.reject
          THEN [@ EXCEPT !.pc = "final", !.status = o.status, !.raw_resp = o.raw_resp,
                         !.error = o.error, !.log = Append(@, "popped_request")]
          ELSE IF ~parsed_sent.ok
            THEN Fail500([@ EXCEPT !.raw_sent = o.raw_sent,
                                   !.log = Append(@, "popped_request")])
            ELSE [@ EXCEPT !.pc = "approved", !.raw_sent = o.raw_sent,
                           !.log = Append(@, "popped_request"),
                           !.sst = SstCheck(PrevForRecheck(last_vlm_text, x),
                                            parsed_sent.user_text)]]
  /\ items' = [items EXCEPT ![e].request = NewItem]
  /\ UNCHANGED <<clock, last_vlm_text, turns, turn_index, ledger, updated>>
  /\ UNCHANGED <<hub, calc, daemon, locks, loop>>

\* the parsed_response a response-stage item is given from reply bytes
ParsedView(raw) ==
  [set |-> TRUE, vlm_text |-> ParseRespNoRaise(raw).vlm_text, streaming |-> FALSE,
   done |-> FALSE]

\* _forward: one synchronous backend call
Forward(e, replies) ==
  LET x == ex[e] IN
  /\ \/ x.pc = "entered" /\ ~Gated(x)
     \/ x.pc = "approved"
  /\ ~x.stream_to_panel
  /\ \E r \in replies :
       LET f == ForwardResult(r) IN
       ex' = [ex EXCEPT ![e] =
         IF ForwardRaises(r)
           THEN Fail500([@ EXCEPT !.sent = <<FwdBytes(x)>>, !.reply_in = <<r>>])
           ELSE [@ EXCEPT !.pc = IF Gated(x) THEN "forwarded" ELSE "final",
                          !.sent = <<FwdBytes(x)>>, !.reply_in = <<r>>,
                          !.status = f.status, !.raw_resp = f.body, !.error = f.error]]
  /\ UNCHANGED <<clock, last_vlm_text, pending, items, turns, turn_index, ledger, updated>>
  /\ UNCHANGED <<hub, calc, daemon, locks, loop>>

\* synchronous mode: the reply is parsed, then the response-stage item is
\* registered and pending_created published
RegisterResponse(e) ==
  LET x == ex[e] IN
  /\ x.pc = "forwarded"
  /\ IF ~ParseResp(x.raw_resp).ok
       THEN /\ ex' = [ex EXCEPT ![e] = Fail500(@)]
            /\ UNCHANGED <<pending, items, turn_index>>
       ELSE /\ pending' = RegistryPut(pending, x.req_id, Ref(e, "response"))
            /\ items' = [items EXCEPT ![e].response.view = ParsedView(x.raw_resp)]
            /\ turn_index' = IndexUpdate(turn_index, x.req_id, "pending", "response", 0)
            /\ ex' = [ex EXCEPT ![e] = Append1([@ EXCEPT !.pc = "wait_response"],
                                                "pending_created_response")]
  /\ UNCHANGED <<clock, last_vlm_text, turns, ledger, updated>>
  /\ UNCHANGED <<hub, calc, daemon, locks, loop>>

\* streaming mode: the response-stage item is registered before the call
RegisterResponseStreaming(e) ==
  LET x == ex[e] IN
  /\ x.pc = "approved" /\ x.stream_to_panel
  /\ pending' = RegistryPut(pending, x.req_id, Ref(e, "response"))
  /\ turn_index' = IndexUpdate(turn_index, x.req_id, "pending", "response", 0)
  /\ ex' = [ex EXCEPT ![e] = Append1([@ EXCEPT !.pc = "connect"],
                                      "pending_created_response")]
  /\ UNCHANGED <<clock, last_vlm_text, items, turns, ledger, updated>>
  /\ UNCHANGED <<hub, calc, daemon, locks, loop>>

\* json.loads(payload) raises, or its value is not a dict
CorruptFrame(ev) == ev.kind \in {"malformed", "nonobject"}

\* (variant of AfterCorrupt: a corrupt frame ends the relay like a failed read)
AfterCorruptAbort == "abort"

\* except Exception: continue / if not isinstance(obj, dict): continue
AfterCorrupt == "continue"

\* "finish_reason": "stop" in every envelope _completion builds
FinishReason(raw) == IF raw.k = "completion" THEN "stop" ELSE ""

\* (variant of StreamView: the view is given no text)
StreamViewNoText(its, reg, id, full_text, done) ==
  LET r == reg[id] IN
  IF r # NoRef /\ r[2] = "response"
    THEN [its EXCEPT ![r[1]].response.view =
            [set |-> TRUE, vlm_text |-> Empty, streaming |-> TRUE, done |-> done]]
    ELSE its

\* broadcast_delta's update of the registered response-stage item
StreamView(its, reg, id, full_text, done) ==
  LET r == reg[id] IN
  IF r # NoRef /\ r[2] = "response"
    THEN [its EXCEPT ![r[1]].response.view =
            [set |-> TRUE, vlm_text |-> full_text, streaming |-> TRUE, done |-> done]]
    ELSE its

\* _forward_streaming has returned f = (status, body, error): the ungated
\* worker goes to the final step; the gated worker stores and parses the
\* reply on its response-stage item, then waits on it
RelayReturns(e, x, f, its) ==
  LET y == [x EXCEPT !.status = f.status, !.raw_resp = f.body, !.error = f.error] IN
  IF ~Gated(x)
    THEN /\ ex' = [ex EXCEPT ![e] = [y EXCEPT !.pc = "final"]]
         /\ items' = its
    ELSE IF ~ParseResp(f.body).ok
      THEN /\ ex' = [ex EXCEPT ![e] = Fail500(y)]
           /\ items' = its
      ELSE /\ ex' = [ex EXCEPT ![e] = [y EXCEPT !.pc = "wait_response"]]
           /\ items' = [its EXCEPT ![e].response.view = ParsedView(f.body)]

\* _forward_streaming: the call is issued with the streaming flag forced on
Connect(e, replies) ==
  LET x == ex[e] IN
  /\ \/ x.pc = "entered" /\ ~Gated(x)
     \/ x.pc = "connect"
  /\ x.stream_to_panel
  /\ \E r \in replies :
       LET y == [x EXCEPT !.sent = <<EnableStreamRequest(FwdBytes(x))>>,
                          !.reply_in = <<r>>]
       IN IF r.kind = "sse"
            THEN /\ ex' = [ex EXCEPT ![e] = [y EXCEPT !.pc = "stream"]]
                 /\ UNCHANGED items
            ELSE IF ForwardRaises(r)
              THEN /\ ex' = [ex EXCEPT ![e] = Fail500(y)]
                   /\ UNCHANGED items
              ELSE RelayReturns(e, y, ForwardResult(r), items)
  /\ UNCHANGED <<clock, last_vlm_text, pending, turns, turn_index, ledger, updated>>
  /\ UNCHANGED <<hub, calc, daemon, locks, loop>>

\* (variant of StreamDelta: the count is taken before the delta is added)
StreamDeltaCountBefore(delta, done, full_text) ==
  [delta |-> delta, done |-> done, chars |-> Len(full_text) - Len(delta)]

\* the stream_delta message broadcast_delta publishes
StreamDelta(delta, done, full_text) ==
  [delta |-> delta, done |-> done, chars |-> Len(full_text)]

\* (variant of Accumulate: the delta is put in front of the transcript)
AccumulateInFront(full_text, delta) == delta \o full_text

\* full_text += delta
Accumulate(full_text, delta) == full_text \o delta

\* (variant of Cancelled: a released reject ends the read loop)
CancelledByReject(p) == p.event /\ p.action = "reject"

\* for raw_line in resp: the read loop is given the id alone and never looks
\* at the event or the decision of the response-stage item
Cancelled(p) == FALSE

\* _forward_streaming: one event of the stream is read and handled
StreamEvent(e, events) ==
  LET x == ex[e] IN
  /\ x.pc = "stream"
  /\ IF Cancelled(items[e].response)
     THEN RelayReturns(e, x, ForwardResult([kind |-> "no_reply"]), items)
     ELSE
     \E ev \in events :
       CASE ev.kind = "delta" /\ ev.t # Empty ->
              /\ Len(x.full_text) < MaxStream
              /\ LET ft == Accumulate(x.full_text, ev.t) IN
                 /\ ex' = [ex EXCEPT ![e] =
                       Append1([x EXCEPT !.full_text = ft,
                                         !.model = IF ev.model # "" THEN ev.model ELSE @,
                                         !.finish_reason = IF ev.fr # "" THEN ev.fr ELSE @,
                                         !.deltas = Append(@, StreamDelta(ev.t, FALSE, ft))],
                               "stream_delta")]
                 /\ items' = StreamView(items, pending, x.req_id, ft, FALSE)
         [] ev.kind = "delta" /\ ev.t = Empty ->
              /\ ex' = [ex EXCEPT ![e].model = IF ev.model # "" THEN ev.model ELSE @,
                                   ![e].finish_reason = IF ev.fr # "" THEN ev.fr ELSE @]
              /\ UNCHANGED items
         [] CorruptFrame(ev) ->
              /\ x.skipped < MaxSkipped
              /\ IF AfterCorrupt = "continue"
                   THEN /\ ex' = [ex EXCEPT ![e].skipped = @ + 1]
                        /\ UNCHANGED items
                   ELSE RelayReturns(e, [x EXCEPT !.skipped = @ + 1],
                                     ForwardResult([kind |-> "no_reply"]), items)
         [] ev.kind \in {"done", "eof"} ->
              LET fallback == IF ev.kind = "done"
                                THEN ModelOf(EnableStreamRequest(FwdBytes(x)))
                                ELSE "panel"
                  final == Completion(x.full_text,
                                      IF x.model # "" THEN x.model ELSE fallback)
              IN RelayReturns(e, Append1([x EXCEPT !.deltas =
                                             Append(@, StreamDelta(Empty, TRUE, x.full_text))],
                                         "stream_done"),
                              [status |-> 200, body |-> final, error |-> ""],
                              StreamView(items, pending, x.req_id, x.full_text, TRUE))
         [] ev.kind = "abort" ->
              RelayReturns(e, x, ForwardResult([kind |-> "no_reply"]), items)
  /\ UNCHANGED <<clock, last_vlm_text, pending, turns, turn_index, ledger, updated>>
  /\ UNCHANGED <<hub, calc, daemon, locks, loop>>

\* (variant of ResponseOutcome: an inject_response is passed through)
ResponseOutcomeEditOnly(dec2, status, raw_resp, error) ==
  IF dec2.action = "reject"
    THEN [status |-> 200, raw_resp |-> Completion(dec2.message, "panel-reject"),
          error |-> "rejected_response"]
  ELSE IF dec2.action = "edit_response" /\ dec2.raw_response # EmptyBytes
    THEN [status |-> 200, raw_resp |-> dec2.raw_response, error |-> "edited_response"]
  ELSE [status |-> status, raw_resp |-> raw_resp, error |-> error]

\* what the worker returns after the released response-stage decision
ResponseOutcome(dec2, status, raw_resp, error) ==
  IF dec2.action = "reject"
    THEN [status |-> 200, raw_resp |-> Completion(dec2.message, "panel-reject"),
          error |-> "rejected_response"]
  ELSE IF dec2.action \in {"edit_response", "inject_response"}
          /\ dec2.raw_response # EmptyBytes
    THEN [status |-> 200, raw_resp |-> dec2.raw_response, error |-> "edited_response"]
  ELSE [status |-> status, raw_resp |-> raw_resp, error |-> error]

\* pending_resp.event.wait() returns; the item is popped and the decision acted on
ReleaseResponse(e) ==
  LET x == ex[e]
      o == ResponseOutcome(items[e].response, x.status, x.raw_resp, x.error)
  IN
  /\ x.pc = "wait_response"
  /\ Released(items[e].response)
  /\ pending' = RegistryPop(pending, x.req_id)
  /\ ex' = [ex EXCEPT ![e] =
        [@ EXCEPT !.pc = "final", !.status = o.status, !.raw_resp = o.raw_resp,
                  !.error = o.error, !.log = Append(@, "popped_response")]]
  /\ items' = [items EXCEPT ![e].response = NewItem]
  /\ UNCHANGED <<clock, last_vlm_text, turns, turn_index, ledger, updated>>
  /\ UNCHANGED <<hub, calc, daemon, locks, loop>>

\* (variant of Observe: an empty completion text is stored too)
ObserveAlways(last, vlm_text) == <<vlm_text>>

\* if resp_parsed.get("vlm_text"): STATE.last_vlm_text = resp_parsed["vlm_text"]
Observe(last, vlm_text) == IF vlm_text # Empty THEN <<vlm_text>> ELSE last

\* TurnItem(...)
TurnItem(x) ==
  [turn_id |-> x.req_id, request_raw |-> x.raw_req, request |-> ParseReq(x.raw_req),
   response_raw |-> x.raw_resp,
   vlm_text |-> ParseRespNoRaise(x.raw_resp).vlm_text,
   response_status |-> x.status, error |-> x.error, sst_check |-> x.sst,
   status |-> "completed"]

\* STATE.turns[req_id] = item
TurnsPut(ts, id, item) == [ts EXCEPT ![id] = <<item>>]

\* STATE.write_turn: one line appended to turns.jsonl
WriteTurn(file, item) == Append(file, item)

\* the final step up to write_turn: last_vlm_text, the Turn, the index, the ledger
FinalRecord(e) ==
  LET x == ex[e]
      resp_parsed == ParseResp(x.raw_resp)
      item == TurnItem(x)
  IN
  /\ x.pc = "final"
  /\ IF ~resp_parsed.ok
       THEN /\ ex' = [ex EXCEPT ![e] = Fail500(@)]
            /\ UNCHANGED <<last_vlm_text, turns, turn_index, ledger>>
       ELSE /\ last_vlm_text' = Observe(last_vlm_text, resp_parsed.vlm_text)
            /\ turns' = TurnsPut(turns, x.req_id, item)
            /\ turn_index' =
                 IF IndexHas(turn_index, x.req_id)
                   THEN IndexUpdate(turn_index, x.req_id, "turn",
                          (CHOOSE s \in {turn_index[i] : i \in 1..Len(turn_index)} :
                              s.id = x.req_id).stage, x.status)
                   ELSE <<[id |-> x.req_id, kind |-> "turn", stage |-> "",
                           status |-> 0]>> \o turn_index
            /\ ledger' = WriteTurn(ledger, item)
            /\ ex' = [ex EXCEPT ![e] = Append1([@ EXCEPT !.pc = "reply"], "turn_appended")]
  /\ UNCHANGED <<clock, pending, items, updated>>
  /\ UNCHANGED <<hub, calc, daemon, locks, loop>>

\* turn_completed is broadcast, then status and bytes are written to the caller
FinalReply(e) ==
  LET x == ex[e] IN
  /\ x.pc = "reply"
  /\ ex' = [ex EXCEPT ![e] =
        [@ EXCEPT !.pc = "done",
                  !.log = @ \o <<"turn_completed", "response_sent">>,
                  !.reply = <<[status |-> x.status, body |-> x.raw_resp]>>]]
  /\ UNCHANGED <<clock, last_vlm_text, pending, items, turns, turn_index, ledger, updated>>
  /\ UNCHANGED <<hub, calc, daemon, locks, loop>>

\* ------------------------------------------------------------------ the broadcast hub
\* queue.Queue() is built with maxsize 0: no limit on its length
QueueMaxsize == 0

\* queue.Queue.put_nowait: Full is raised only by a queue with a maxsize
PutNowait(q, msg) ==
  IF QueueMaxsize > 0 /\ Len(q) >= QueueMaxsize
    THEN [full |-> TRUE, q |-> q]
    ELSE [full |-> FALSE, q |-> Append(q, msg)]

\* the message of publisher p's k-th broadcast
Msg(p, k) == <<p, k>>

\* [q for q in self.sse_clients if q not in dead]
Prune(clients, dead) == SelectSeq(clients, LAMBDA o : o \notin dead)

\* (variant of Remove: the observer's queue is left in the list)
RemoveNothing(clients, o) == clients

\* self.sse_clients.remove(q), if q is in the list
Remove(clients, o) == SelectSeq(clients, LAMBDA c : c # o)

\* sse_register: a new queue is appended to the list; the handler then
\* writes the headers and enters its loop
SseRegister(o) ==
  /\ obs[o].pc = "new"
  /\ \A d \in Observers : d < o => obs[d].pc # "new"
  /\ sse_clients' = Append(sse_clients, o)
  /\ obs' = [obs EXCEPT ![o].pc = "listening"]
  /\ UNCHANGED <<queues, pub>>
  /\ UNCHANGED <<gateway, calc, daemon, locks, loop>>

\* q.get returns a message and the handler writes it to its client
Deliver(o) ==
  /\ obs[o].pc = "listening"
  /\ queues[o] # <<>>
  /\ queues' = [queues EXCEPT ![o] = Tail(@)]
  /\ obs' = [obs EXCEPT ![o].seen = Append(@, Head(queues[o]))]
  /\ UNCHANGED <<sse_clients, pub>>
  /\ UNCHANGED <<gateway, calc, daemon, locks, loop>>

\* the client stops reading: the handler blocks in wfile.write and takes
\* nothing more from its queue
Stall(o) ==
  /\ obs[o].pc = "listening"
  /\ obs' = [obs EXCEPT ![o].pc = "stalled"]
  /\ UNCHANGED <<sse_clients, queues, pub>>
  /\ UNCHANGED <<gateway, calc, daemon, locks, loop>>

\* a write to the client raises (or the keepalive write fails): the finally
\* clause runs sse_unregister and the handler ends
SseUnregister(o) ==
  /\ obs[o].pc = "listening"
  /\ sse_clients' = Remove(sse_clients, o)
  /\ obs' = [obs EXCEPT ![o].pc = "gone"]
  /\ UNCHANGED <<queues, pub>>
  /\ UNCHANGED <<gateway, calc, daemon, locks, loop>>

\* broadcast: the message is serialized and, under sse_lock, the list copied
BroadcastStart(p) ==
  /\ pub[p].pc = "idle"
  /\ pub[p].sent < MaxBroadcasts
  /\ pub' = [pub EXCEPT ![p] = [@ EXCEPT !.pc = "put", !.clients = sse_clients,
                                          !.i = 1, !.dead = {}]]
  /\ UNCHANGED <<sse_clients, queues, obs>>
  /\ UNCHANGED <<gateway, calc, daemon, locks, loop>>

\* broadcast: one turn of the loop, q.put_nowait(msg) on the next copied queue
BroadcastPut(p) ==
  LET b == pub[p] IN
  /\ b.pc = "put"
  /\ b.i <= Len(b.clients)
  /\ LET o == b.clients[b.i]
         r == PutNowait(queues[o], Msg(p, b.sent + 1))
     IN /\ queues' = [queues EXCEPT ![o] = r.q]
        /\ pub' = [pub EXCEPT ![p] =
              [@ EXCEPT !.i = @ + 1,
                        !.dead = IF r.full THEN @ \cup {o} ELSE @]]
  /\ UNCHANGED <<sse_clients, obs>>
  /\ UNCHANGED <<gateway, calc, daemon, locks, loop>>

\* broadcast: after the loop the dead queues, if any, are pruned under
\* sse_lock, and the call returns
BroadcastEnd(p) ==
  LET b == pub[p] IN
  /\ b.pc = "put"
  /\ b.i > Len(b.clients)
  /\ sse_clients' = IF b.dead # {} THEN Prune(sse_clients, b.dead) ELSE sse_clients
  /\ pub' = [pub EXCEPT ![p] = [@ EXCEPT !.pc = "idle", !.sent = @ + 1]]
  /\ UNCHANGED <<queues, obs>>
  /\ UNCHANGED <<gateway, calc, daemon, locks, loop>>

\* Hub: the observers of GET /events and the threads that broadcast to them.
NextHub ==
  \/ \E o \in Observers : SseRegister(o)
  \/ \E o \in Observers : Deliver(o)
  \/ \E o \in Observers : Stall(o)
  \/ \E o \in Observers : SseUnregister(o)
  \/ \E p \in Publishers : BroadcastStart(p)
  \/ \E p \in Publishers : BroadcastPut(p)
  \/ \E p \in Publishers : BroadcastEnd(p)

Hub == Init /\ [][NextHub]_vars

\* ------------------------------------------------------------------ the continuity check alone
\* the texts over two characters of length at most n
RECURSIVE TextsUpTo(_)
TextsUpTo(n) ==
  IF n = 0 THEN {Empty}
  ELSE LET S == TextsUpTo(n - 1)
       IN S \cup {Append(t, c) : t \in S, c \in {"a", "b"}}

\* prev: None or a text; current_user_text: a text
SstPrevs == {<<>>} \cup {<<t>> : t \in TextsUpTo(MaxText)}

InitSst ==
  /\ InitState /\ InitLoop
  /\ calc \in {[fn |-> "sst_check", args |-> <<prev, cur>>, out |-> <<>>] :
                  prev \in SstPrevs, cur \in TextsUpTo(MaxText)}

\* _sst_check(prev, current_user_text) is called
SstCall ==
  /\ calc.fn = "sst_check" /\ calc.out = <<>>
  /\ calc' = [calc EXCEPT !.out = <<SstCheck(calc.args[1], calc.args[2])>>]
  /\ UNCHANGED <<gateway, hub, daemon, locks, loop>>

Sst == InitSst /\ [][SstCall]_vars

\* ------------------------------------------------------------------ the locks
\* A statement: op is what the thread does next, eff what the body of the
\* with-block it leaves has done.
\*   acquire / release          entering / leaving "with STATE.lock"
\*   sse_acquire / sse_release  entering / leaving "with self.sse_lock"
\*   put                        the put_nowait loop of STATE.broadcast
\*   wait                       event.wait() on the item of stage eff
\*   call                       a blocking call: to the backend (urlopen, a
\*                              read of the reply or of its next line), to
\*                              a client, on a queue, a process or a timer
St(op, eff) == [op |-> op, eff |-> eff]

\* with STATE.lock: <body>
Locked(eff) == <<St("acquire", ""), St("release", eff)>>

\* STATE.broadcast(payload): the list is copied under sse_lock, the queues
\* are filled with no lock held (no queue is ever full: no prune)
Broadcast == <<St("sse_acquire", ""), St("sse_release", ""), St("put", "")>>

\* (variant of GateRequest: the wait is inside the with-block that registers)
GateRequestWaitLocked ==
  Locked("") \o Broadcast
    \o <<St("acquire", ""), St("wait", "request"), St("release", "register_request")>>
    \o Broadcast \o Locked("pop_request") \o Locked("")

\* _proxy_request up to the request-stage release, gated
GateRequest ==
  Locked("") \o Broadcast \o Locked("register_request") \o Broadcast
    \o <<St("wait", "request")>> \o Locked("pop_request") \o Locked("")

\* the final step: last_vlm_text, the Turn and the index, turn_completed
FinalStep == Locked("") \o Locked("") \o Broadcast

\* the gated handler in synchronous mode: _forward, then the response stage
SyncProgram ==
  GateRequest \o <<St("call", "")>> \o Locked("register_response") \o Broadcast
    \o <<St("wait", "response")>> \o Locked("pop_response") \o FinalStep

\* the gated handler in streaming mode: the response-stage item first, then
\* _forward_streaming reading one delta and the terminator, each followed by
\* broadcast_delta (a broadcast, then the view update under STATE.lock)
StreamProgram ==
  GateRequest \o Locked("register_response") \o Broadcast
    \o <<St("call", "")>> \o Broadcast \o Locked("")
    \o <<St("call", "")>> \o Broadcast \o Locked("")
    \o <<St("wait", "response")>> \o Locked("pop_response") \o FinalStep

\* (variant of DecideProgram: pending_updated is broadcast inside the
\* with-block)
DecideProgramBroadcastsLocked ==
  <<St("acquire", "")>> \o Broadcast \o <<St("release", "decide")>>

\* _pending_decide: the decision and event.set() under STATE.lock, then
\* pending_updated
DecideProgram == Locked("decide") \o Broadcast

\* GET /index, /turn/<id>, /pending, /health: a copy under STATE.lock
ListProgram == Locked("")

\* with self.sse_lock: <body>
SseLocked == <<St("sse_acquire", ""), St("sse_release", "")>>

\* _handle_sse: sse_register, the loop that takes messages from the queue
\* and writes them to the client, sse_unregister
SseProgram == SseLocked \o <<St("call", "")>> \o SseLocked

\* _heartbeat: one round of its loop, a ping and the timed wait
HeartbeatProgram == Broadcast \o <<St("call", "")>>

\* _run_main: one round of its loop, Popen under STATE.lock, the wait for
\* the process to end, main_proc = None under STATE.lock
RunMainProgram == Locked("") \o <<St("call", "")>> \o Locked("")

\* _stop_main: p = STATE.main_proc under STATE.lock, then terminate and kill
StopMainProgram == Locked("") \o <<St("call", "")>>

AuxPrograms == {"sse", "heartbeat", "run_main", "stop_main"}

ProgramOf(name) ==
  CASE name = "sync" -> SyncProgram
    [] name = "stream" -> StreamProgram
    [] name = "decide" -> DecideProgram
    [] name = "list" -> ListProgram
    [] name = "sse" -> SseProgram
    [] name = "heartbeat" -> HeartbeatProgram
    [] name = "run_main" -> RunMainProgram
    [] name = "stop_main" -> StopMainProgram
    [] OTHER -> <<>>

\* the statement thread t is at; op "end" past the last one
Stmt(t) ==
  LET prog == ProgramOf(thr[t].prog) IN
  IF thr[t].pc <= Len(prog) THEN prog[thr[t].pc] ELSE St("end", "")

Step(t) == [thr EXCEPT ![t].pc = @ + 1]

\* a request arrives: its handler thread starts
Start(t) ==
  /\ thr[t].prog = "none"
  /\ \/ t \in LockWorkers /\ \E name \in {"sync", "stream"} :
          thr' = [thr EXCEPT ![t] = [NewThread EXCEPT !.prog = name]]
     \/ t = Decider /\ \E w \in LockWorkers, stage \in {"request", "response"} :
          thr' = [thr EXCEPT ![t] = [NewThread EXCEPT !.prog = "decide",
                                                       !.target = <<w, stage>>]]
     \/ t = Lister /\ thr' = [thr EXCEPT ![t] = [NewThread EXCEPT !.prog = "list"]]
     \/ t = Aux /\ \E name \in AuxPrograms :
          thr' = [thr EXCEPT ![t] = [NewThread EXCEPT !.prog = name]]
  /\ UNCHANGED <<lock, sse_lock, registered, released>>
  /\ UNCHANGED <<gateway, hub, calc, daemon, loop>>

\* threading.Lock.acquire on STATE.lock
Acquire(t) ==
  /\ Stmt(t).op = "acquire" /\ lock = 0
  /\ lock' = t
  /\ thr' = Step(t)
  /\ UNCHANGED <<sse_lock, registered, released>>
  /\ UNCHANGED <<gateway, hub, calc, daemon, loop>>

\* p = STATE.pending.get(pid): the id is that of the exchange of worker
\* target[1]; the item found is the one that worker has registered, of
\* whichever stage (target[2] is the stage the caller addressed, which the
\* call does not carry)
Lookup(target, reg) == {it \in reg : it[1] = target[1]}

\* (variant of Missing: the call goes on without an item)
MissingNever(hits) == FALSE

\* if not p: return
Missing(hits) == hits = {}

\* the body of the with-block has run; the lock is released. A decision for
\* an id that is not registered returns before its broadcast.
Release(t) ==
  LET eff == Stmt(t).eff
      hits == Lookup(thr[t].target, registered)
  IN
  /\ Stmt(t).op = "release" /\ lock = t
  /\ lock' = 0
  /\ registered' = CASE eff = "register_request" -> registered \cup {<<t, "request">>}
               [] eff = "register_response" -> registered \cup {<<t, "response">>}
               [] eff = "pop_request" -> registered \ {<<t, "request">>}
               [] eff = "pop_response" -> registered \ {<<t, "response">>}
               [] OTHER -> registered
  /\ released' = IF eff = "decide" THEN released \cup hits ELSE released
  /\ thr' = IF eff = "decide"
              THEN IF Missing(hits)
                     THEN [thr EXCEPT ![t].pc = Len(ProgramOf(thr[t].prog)) + 1]
                     ELSE [thr EXCEPT ![t].pc = @ + 1,
                                      ![t].found = IF hits = {} THEN @
                                                   ELSE CHOOSE it \in hits : TRUE]
              ELSE Step(t)
  /\ UNCHANGED sse_lock
  /\ UNCHANGED <<gateway, hub, calc, daemon, loop>>

\* threading.Lock.acquire on STATE.sse_lock
SseAcquire(t) ==
  /\ Stmt(t).op = "sse_acquire" /\ sse_lock = 0
  /\ sse_lock' = t
  /\ thr' = Step(t)
  /\ UNCHANGED <<lock, registered, released>>
  /\ UNCHANGED <<gateway, hub, calc, daemon, loop>>

\* clients = list(self.sse_clients); the lock is released
SseRelease(t) ==
  /\ Stmt(t).op = "sse_release" /\ sse_lock = t
  /\ sse_lock' = 0
  /\ thr' = Step(t)
  /\ UNCHANGED <<lock, registered, released>>
  /\ UNCHANGED <<gateway, hub, calc, daemon, loop>>

\* for q in clients: q.put_nowait(msg)
Put(t) ==
  /\ Stmt(t).op = "put"
  /\ thr' = Step(t)
  /\ UNCHANGED <<lock, sse_lock, registered, released>>
  /\ UNCHANGED <<gateway, hub, calc, daemon, loop>>

\* event.wait() returns once the event of the thread's item is set
WaitReturns(t) ==
  /\ Stmt(t).op = "wait" /\ <<t, Stmt(t).eff>> \in released
  /\ thr' = Step(t)
  /\ UNCHANGED <<lock, sse_lock, registered, released>>
  /\ UNCHANGED <<gateway, hub, calc, daemon, loop>>

\* the blocking call to the backend returns
CallReturns(t) ==
  /\ Stmt(t).op = "call"
  /\ thr' = Step(t)
  /\ UNCHANGED <<lock, sse_lock, registered, released>>
  /\ UNCHANGED <<gateway, hub, calc, daemon, loop>>

\* the handler returns; the thread of a decision or listing call serves the
\* next such call
Finish(t) ==
  /\ thr[t].prog # "none" /\ Stmt(t).op = "end"
  /\ t \in {Decider, Lister, Aux}
  /\ thr' = [thr EXCEPT ![t] = NewThread]
  /\ UNCHANGED <<lock, sse_lock, registered, released>>
  /\ UNCHANGED <<gateway, hub, calc, daemon, loop>>

NextLocks ==
  \E t \in Threads :
    \/ Start(t)
    \/ Acquire(t)
    \/ Release(t)
    \/ SseAcquire(t)
    \/ SseRelease(t)
    \/ Put(t)
    \/ WaitReturns(t)
    \/ CallReturns(t)
    \/ Finish(t)

Locks == Init /\ [][NextLocks]_vars

\* Mesh: one gateway worker with every other kind of thread that takes a lock
MeshThreads == {1, Decider, Lister, Aux}

NextMesh ==
  \E t \in MeshThreads :
    \/ Start(t)
    \/ Acquire(t)
    \/ Release(t)
    \/ SseAcquire(t)
    \/ SseRelease(t)
    \/ Put(t)
    \/ WaitReturns(t)
    \/ CallReturns(t)
    \/ Finish(t)

Mesh == Init /\ [][NextMesh]_vars

\* ------------------------------------------------------------------ the supervisor
\* Popen calls the supervisor makes at most
MaxLaunches == 3

\* return codes an agent-loop process ends with by itself
ExitCodes == {0, 1}
\* return codes of a process ended by terminate() and by kill()
RcTerminated == 0 - 15
RcKilled == 0 - 9

\* subprocess.Popen(...) as returned
NewProc == [state |-> "running", rc |-> 0]

\* (variant of Restarts: only a failed process is started again)
RestartsOnFailure(rc) == rc # 0

\* rc = STATE.main_proc.wait() is only written to the log: the loop goes on
\* whatever it is
Restarts(rc) == TRUE

\* while not STATE.shutdown.is_set()
RunCheck ==
  /\ runner.pc = "check"
  /\ runner' = [runner EXCEPT !.pc = IF shutdown THEN "end" ELSE "popen"]
  /\ UNCHANGED <<shutdown, main_proc, procs, stopper>>
  /\ UNCHANGED <<gateway, hub, calc, locks, loop>>

\* with STATE.lock: STATE.main_proc = subprocess.Popen(...)
RunPopen ==
  /\ runner.pc = "popen" /\ runner.attempts < MaxLaunches
  /\ procs' = Append(procs, NewProc)
  /\ main_proc' = Len(procs')
  /\ runner' = [runner EXCEPT !.pc = "wait", !.attempts = @ + 1]
  /\ UNCHANGED <<shutdown, stopper>>
  /\ UNCHANGED <<gateway, hub, calc, locks, loop>>

\* subprocess.Popen(...) raises: the process did not start
RunPopenFails ==
  /\ runner.pc = "popen" /\ runner.attempts < MaxLaunches
  /\ runner' = [runner EXCEPT !.pc = "finally", !.attempts = @ + 1]
  /\ UNCHANGED <<shutdown, main_proc, procs, stopper>>
  /\ UNCHANGED <<gateway, hub, calc, locks, loop>>

\* rc = STATE.main_proc.wait() returns
RunWait ==
  /\ runner.pc = "wait"
  /\ procs[main_proc].state = "exited"
  /\ runner' = [runner EXCEPT !.pc = IF Restarts(procs[main_proc].rc)
                                       THEN "finally" ELSE "last"]
  /\ UNCHANGED <<shutdown, main_proc, procs, stopper>>
  /\ UNCHANGED <<gateway, hub, calc, locks, loop>>

\* finally: with STATE.lock: STATE.main_proc = None
RunFinally ==
  /\ runner.pc \in {"finally", "last"}
  /\ main_proc' = 0
  /\ runner' = [runner EXCEPT !.pc = IF runner.pc = "last" THEN "end" ELSE "check"]
  /\ UNCHANGED <<shutdown, procs, stopper>>
  /\ UNCHANGED <<gateway, hub, calc, locks, loop>>

\* an agent-loop process ends by itself
ProcExit(i, rc) ==
  /\ i \in 1..Len(procs) /\ procs[i].state = "running"
  /\ procs' = [procs EXCEPT ![i] = [state |-> "exited", rc |-> rc]]
  /\ UNCHANGED <<shutdown, main_proc, runner, stopper>>
  /\ UNCHANGED <<gateway, hub, calc, locks, loop>>

\* main(): serve_forever ends; finally: STATE.shutdown.set()
ShutdownSet ==
  /\ stopper.pc = "serving"
  /\ shutdown' = TRUE
  /\ stopper' = [stopper EXCEPT !.pc = "stop"]
  /\ UNCHANGED <<main_proc, procs, runner>>
  /\ UNCHANGED <<gateway, hub, calc, locks, loop>>

\* _stop_main: with STATE.lock: p = STATE.main_proc; if not p: return
StopRead ==
  /\ stopper.pc = "stop"
  /\ stopper' = [pc |-> IF main_proc = 0 THEN "done" ELSE "terminate", p |-> main_proc]
  /\ UNCHANGED <<shutdown, main_proc, procs, runner>>
  /\ UNCHANGED <<gateway, hub, calc, locks, loop>>

\* p.terminate(): the process is asked to end; it may end now or go on
StopTerminate ==
  /\ stopper.pc = "terminate"
  /\ \/ procs' = procs
     \/ /\ procs[stopper.p].state = "running"
        /\ procs' = [procs EXCEPT ![stopper.p] = [state |-> "exited", rc |-> RcTerminated]]
  /\ stopper' = [stopper EXCEPT !.pc = "kill"]
  /\ UNCHANGED <<shutdown, main_proc, runner>>
  /\ UNCHANGED <<gateway, hub, calc, locks, loop>>

\* p.kill(): a process still present is ended
StopKill ==
  /\ stopper.pc = "kill"
  /\ procs' = IF procs[stopper.p].state = "running"
                THEN [procs EXCEPT ![stopper.p] = [state |-> "exited", rc |-> RcKilled]]
                ELSE procs
  /\ stopper' = [stopper EXCEPT !.pc = "done"]
  /\ UNCHANGED <<shutdown, main_proc, runner>>
  /\ UNCHANGED <<gateway, hub, calc, locks, loop>>

\* main() returns: the interpreter ends and its daemon threads with it
GatewayExit ==
  /\ stopper.pc = "done"
  /\ stopper' = [stopper EXCEPT !.pc = "exited"]
  /\ runner' = [runner EXCEPT !.pc = "end"]
  /\ UNCHANGED <<shutdown, main_proc, procs>>
  /\ UNCHANGED <<gateway, hub, calc, locks, loop>>

NextSupervisor ==
  \/ RunCheck
  \/ RunPopen
  \/ RunPopenFails
  \/ RunWait
  \/ RunFinally
  \/ \E i \in 1..MaxLaunches, rc \in ExitCodes : ProcExit(i, rc)
  \/ ShutdownSet
  \/ StopRead
  \/ StopTerminate
  \/ StopKill
  \/ GatewayExit

\* the supervisor thread is a live thread: each of its steps is taken once
\* it can be; nothing makes a process end or the gateway shut down
Supervisor ==
  /\ Init /\ [][NextSupervisor]_vars
  /\ WF_vars(RunCheck) /\ WF_vars(RunPopen \/ RunPopenFails)
  /\ WF_vars(RunWait) /\ WF_vars(RunFinally)

\* ------------------------------------------------------------------ the agent loop
MaxTurns == 3          \* turns one agent-loop process makes
MaxNotices == 2        \* POST /pause and POST /unpause calls

\* if fails >= 8
FailLimit == 8

\* (variant of Paused: the loop does not see the file)
PausedNever(m) == FALSE

\* PAUSE_FILE.exists()
Paused(m) == m

\* (variant of Streak: a turn that executes an action leaves the streak)
StreakNoReset(fails, executed, malformed) ==
  IF ~executed /\ malformed THEN fails + 1 ELSE fails

\* if (not executed) and malformed: fails += 1 / elif executed: fails = 0
Streak(fails, executed, malformed) ==
  IF ~executed /\ malformed THEN fails + 1
  ELSE IF executed THEN 0 ELSE fails

\* main.py started in a run directory that an earlier process of the run has
\* used: _load_state reads the streak it saved, the PAUSED file may be there
InitAgent ==
  /\ InitState /\ calc = NoCall
  /\ marker \in BOOLEAN
  /\ agent \in {[NewAgent EXCEPT !.fails = f] : f \in 0..FailLimit}
  /\ notices = <<>>

\* POST /pause: the file is written, paused is broadcast
PostPause ==
  /\ Len(notices) < MaxNotices
  /\ marker' = TRUE
  /\ notices' = Append(notices, "paused")
  /\ UNCHANGED agent
  /\ UNCHANGED <<gateway, hub, calc, daemon, locks>>

\* POST /unpause: the file is unlinked (an exception is passed over),
\* unpaused is broadcast
PostUnpause ==
  /\ Len(notices) < MaxNotices
  /\ marker' = FALSE
  /\ notices' = Append(notices, "unpaused")
  /\ UNCHANGED agent
  /\ UNCHANGED <<gateway, hub, calc, daemon, locks>>

\* while True: if PAUSE_FILE.exists(): ... else: turn += 1
AgentTop ==
  /\ agent.pc = "top" /\ agent.turn < MaxTurns
  /\ agent' = IF Paused(marker)
                THEN [agent EXCEPT !.pc = "idle"]
                ELSE [agent EXCEPT !.pc = "turn", !.turn = @ + 1]
  /\ UNCHANGED <<marker, notices>>
  /\ UNCHANGED <<gateway, hub, calc, daemon, locks>>

\* while PAUSE_FILE.exists(): time.sleep(2) ends; fails = 0; turn += 1
AgentResume ==
  /\ agent.pc = "idle" /\ agent.turn < MaxTurns
  /\ ~Paused(marker)
  /\ agent' = [agent EXCEPT !.pc = "turn", !.fails = 0, !.turn = @ + 1]
  /\ UNCHANGED <<marker, notices>>
  /\ UNCHANGED <<gateway, hub, calc, daemon, locks>>

\* er = _run_executor(story); the streak; if fails >= 8: the file is
\* written, the state saved, continue
AgentExecute(executed, malformed) ==
  LET f == Streak(agent.fails, executed, malformed) IN
  /\ agent.pc = "turn"
  /\ agent' = [agent EXCEPT !.pc = IF f >= FailLimit THEN "top" ELSE "infer",
                            !.fails = f, !.executed = executed,
                            !.malformed = malformed]
  /\ marker' = IF f >= FailLimit THEN TRUE ELSE marker
  /\ UNCHANGED notices
  /\ UNCHANGED <<gateway, hub, calc, daemon, locks>>

\* raw = _infer(...); the state is saved; time.sleep
AgentInfer ==
  /\ agent.pc = "infer"
  /\ agent' = [agent EXCEPT !.pc = "top", !.infers = @ + 1]
  /\ UNCHANGED <<marker, notices>>
  /\ UNCHANGED <<gateway, hub, calc, daemon, locks>>

NextAgent ==
  \/ PostPause
  \/ PostUnpause
  \/ AgentTop
  \/ AgentResume
  \/ \E executed \in BOOLEAN, malformed \in BOOLEAN : AgentExecute(executed, malformed)
  \/ AgentInfer

\* Agent: the agent loop with the operator's pause and unpause calls
Agent == InitAgent /\ [][NextAgent]_vars

\* ------------------------------------------------------------------ specification
\* Spec: exchange 1 is drawn from every input above; the exchanges that run
\* beside it are plain ones (default configuration, a well-formed request,
\* a backend that answers).
PlainReplies == {[kind |-> "ok", status |-> 200, body |-> Completion(TA, "up")]}
RawsOf(e) == IF e = 1 THEN RawReqs ELSE {Request(TA)}
CfgsOf(e) == IF e = 1 THEN AllCfgs ELSE {DefaultCfg}
RepliesOf(e) == IF e = 1 THEN BackendReplies ELSE PlainReplies

WorkerOn(e, events) ==
  \/ Enter(e, RawsOf(e), CfgsOf(e))
  \/ RegisterRequest(e)
  \/ ReleaseRequest(e)
  \/ Forward(e, RepliesOf(e))
  \/ RegisterResponse(e)
  \/ RegisterResponseStreaming(e)
  \/ Connect(e, StreamReplies)
  \/ StreamEvent(e, events)
  \/ ReleaseResponse(e)
  \/ FinalRecord(e)
  \/ FinalReply(e)

Worker(e) == WorkerOn(e, StreamEvents)

\* the stream events of Spec: frames that are well formed and name no
\* finish reason (Solo and Relay draw from all of them)
PlainEvents == {ev \in StreamEvents : ~CorruptFrame(ev) /\ ev.fr = ""}

Operator ==
  \/ \E pid \in Ids : Approve(pid)
  \/ \E pid \in Ids, msg \in Messages : Reject(pid, msg)
  \/ \E pid \in Ids, raw \in RawRequestEdits : EditRequest(pid, raw)
  \/ \E pid \in Ids, raw \in RawResponseEdits : EditResponse(pid, raw)
  \/ \E pid \in Ids, raw \in RawResponseEdits : InjectResponse(pid, raw)

Next == (\E e \in W : WorkerOn(e, PlainEvents)) \/ Operator

Spec == Init /\ [][Next]_vars

\* Relay: one streaming exchange whose backend answers with an event stream
\* of deltas of two different texts, with the operator approving.
RelayEvents ==
  StreamEvents \cup {[kind |-> "delta", t |-> TB, model |-> "", fr |-> ""]}
RelayCfgs == {Cfg(fw, FALSE, TRUE) : fw \in BOOLEAN}
RelayReplies == {r \in StreamReplies : r.kind = "sse"}

NextRelay ==
  \/ Enter(1, {Request(TA)}, RelayCfgs)
  \/ RegisterRequest(1)
  \/ \E pid \in Ids : Approve(pid)
  \/ ReleaseRequest(1)
  \/ RegisterResponseStreaming(1)
  \/ Connect(1, RelayReplies)
  \/ StreamEvent(1, RelayEvents)
  \/ ReleaseResponse(1)
  \/ FinalRecord(1)
  \/ FinalReply(1)

Relay == Init /\ [][NextRelay]_vars

\* Solo: one exchange in flight, with the operator.
NextSolo == Worker(1) \/ Operator

Solo == Init /\ [][NextSolo]_vars

\* Pair: exchanges that are all gated, in synchronous mode, with well-formed
\* requests and a backend that answers, and an operator who approves or
\* rejects.
PairCfgs == {Cfg(TRUE, FALSE, FALSE)}

NextPair ==
  \/ \E e \in W : Enter(e, {Request(TA)}, PairCfgs)
  \/ \E e \in W : RegisterRequest(e)
  \/ \E e \in W : ReleaseRequest(e)
  \/ \E e \in W : Forward(e, PlainReplies)
  \/ \E e \in W : RegisterResponse(e)
  \/ \E e \in W : ReleaseResponse(e)
  \/ \E e \in W : FinalRecord(e)
  \/ \E e \in W : FinalReply(e)
  \/ \E pid \in Ids : Approve(pid)
  \/ \E pid \in Ids, msg \in Messages : Reject(pid, msg)

Pair == Init /\ [][NextPair]_vars

\* ------------------------------------------------------------------ claims
DecisionOf(p) == <<p.action, p.message, p.raw_request, p.raw_response>>
Item(r) == items[r[1]][r[2]]

\* C1: once a decision call has released a registered PendingItem, every
\* later decision call for the same correlation id is a no-op: as long as the
\* item stays registered (until its worker pops it and acts), its action,
\* message and replacement bytes stay those of the call that released it.
C1_LaterDecisionsAreNoOps ==
  [][\A id \in Ids :
       LET r == pending[id] IN
       (r # NoRef /\ Item(r).event /\ pending'[id] = r)
         => DecisionOf(items'[r[1]][r[2]]) = DecisionOf(Item(r))]_vars

\* the handler positions at which a worker is at the stage of an item
AtStage(x, stage) ==
  IF stage = "request" THEN x.pc = "wait_request"
  ELSE x.pc \in {"connect", "stream", "wait_response"}

\* the handler positions after the worker has read the decision of a stage
Observed(x, stage) ==
  IF stage = "request" THEN x.pc \in {"approved", "forwarded", "connect", "stream",
                                       "wait_response", "final", "reply", "done"}
  ELSE x.pc \in {"final", "reply", "done"}

\* C2: the registry holds at most one PendingItem per (exchange, stage), each
\* registered item belongs to an exchange whose worker is at that stage, and
\* an item whose decision its worker has observed is not in the registry.
C2_RegistryMatchesWorkers ==
  /\ \A i \in Ids, j \in Ids : (pending[i] # NoRef /\ pending[i] = pending[j]) => i = j
  /\ \A id \in Ids :
       LET r == pending[id] IN
       r # NoRef => /\ ex[r[1]].req_id = id
                    /\ AtStage(ex[r[1]], r[2])
  /\ \A e \in W, id \in Ids, stage \in {"request", "response"} :
       (Observed(ex[e], stage) /\ Gated(ex[e])) => pending[id] # Ref(e, stage)

\* the parts of C3: the release step, what is kept after it, what is returned
C3_RejectStep ==
  \A e \in W :
    (ex[e].pc = "wait_request" /\ ex'[e].pc # "wait_request"
       /\ items[e].request.action = "reject")
      => /\ ex'[e].pc = "final"
         /\ ex'[e].error = "rejected_request"
         /\ ex'[e].status = 200
         /\ ParseResp(ex'[e].raw_resp).ok
         /\ ParseResp(ex'[e].raw_resp).vlm_text = items[e].request.message

C3_RejectKept ==
  \A e \in W :
    ex[e].error = "rejected_request"
      => /\ ex'[e].raw_resp = ex[e].raw_resp
         /\ ex'[e].status = ex[e].status
         /\ ex'[e].error = ex[e].error
         /\ ex'[e].pc \in {"final", "reply", "done"}

C3_RejectReturned ==
  \A e \in W :
    ex[e].error = "rejected_request"
      => /\ Gated(ex[e])
         /\ ex[e].sent = <<>>
         /\ ex[e].pc = "done" =>
               ex[e].reply = <<[status |-> 200, body |-> ex[e].raw_resp]>>

\* C3: when the request-stage decision of a gated exchange is reject with
\* message m, the handler goes straight to the final step with status 200 and
\* a completion whose content is m, keeps them, never calls the backend, and
\* writes that status and completion to the caller.
C3_RejectedRequestIsAnsweredLocally ==
  [][C3_RejectStep /\ C3_RejectKept]_vars /\ []C3_RejectReturned

C3_Witness ==
  \E e \in W :
    /\ ex[e].pc = "done" /\ ex[e].error = "rejected_request"
    /\ ex[e].reply[1].status = 200
    /\ ParseResp(ex[e].reply[1].body).vlm_text = TNo

\* C4 as stated: for an exchange that is not gated, the bytes sent to the
\* backend are the caller's bytes apart from the streaming flag, and the
\* status and body written to the caller by the final step are the status
\* and body of the backend's reply.
C4_UngatedReturnsBackendReply ==
  \A e \in W :
    LET x == ex[e] IN
    ~Gated(x) =>
      /\ x.sent # <<>> => [x.sent[1] EXCEPT !.s = ""] = [x.raw_req EXCEPT !.s = ""]
      /\ (x.pc = "done" /\ x.reply_in[1].kind # "no_reply") =>
            x.reply = <<[status |-> x.reply_in[1].status, body |-> x.reply_in[1].body]>>

\* the parts of C4: the bytes sent, the reply of the final step, the 500 reply
C4_UngatedSent ==
  \A e \in W :
    LET x == ex[e] IN
    (~Gated(x) /\ x.sent # <<>>) =>
      x.sent = <<IF x.stream_to_panel THEN EnableStreamRequest(x.raw_req) ELSE x.raw_req>>

C4_UngatedReturned ==
  \A e \in W :
    LET x == ex[e] IN
    (~Gated(x) /\ x.pc = "done") =>
      LET r == x.reply_in[1]
          out == x.reply[1]
      IN /\ Len(x.reply) = 1
         /\ CASE r.kind \in {"ok", "http_error"} ->
                   out = [status |-> r.status, body |-> r.body]
              [] r.kind = "no_reply" ->
                   out = [status |-> 502, body |-> ErrJson]
              [] r.kind = "sse" ->
                   IF x.error = "transport"
                     THEN out = [status |-> 502, body |-> ErrJson]
                     ELSE /\ out.status = r.status
                          /\ out.body.k = "completion"
                          /\ out.body.t = x.full_text
                          /\ ParseResp(out.body).vlm_text = x.full_text

C4_UngatedFailed ==
  \A e \in W :
    LET x == ex[e] IN
    (~Gated(x) /\ x.pc = "failed") =>
      /\ x.reply = <<[status |-> 500, body |-> Junk]>>
      /\ \/ ~ParseReq(x.raw_req).ok
         \/ x.reply_in # <<>> /\ ~ParseResp(x.raw_resp).ok
         \/ x.reply_in # <<>> /\ x.reply_in[1].kind = "http_error_cut"

\* C4 (amended): for an exchange that is not gated, the bytes sent are the
\* caller's bytes in synchronous mode and _enable_stream_request of them in
\* streaming mode; the final step writes the backend's status and body for a
\* buffered reply, the backend's status with the completion synthesized from
\* the concatenated deltas for an event-stream reply, and 502 with the JSON
\* error body when the call or the stream fails; a handler that ends without
\* the final step has answered 500 after a parse of the request or of these
\* bytes raised, or after the body of a non-2xx reply broke off.
C4_UngatedIsTransparentUpToRelay ==
  C4_UngatedSent /\ C4_UngatedReturned /\ C4_UngatedFailed

C4_Witness ==
  \E e \in W :
    LET x == ex[e] IN
    /\ ~Gated(x) /\ x.pc = "done" /\ x.stream_to_panel
    /\ x.reply_in[1].kind = "sse" /\ x.full_text = TA
    /\ x.reply[1].body = Completion(TA, "up")
    /\ x.sent = <<EnableStreamRequest(x.raw_req)>> /\ x.sent[1] # x.raw_req

\* the position of the first tag in a worker's log, 0 when it is absent
First(log, tag) ==
  IF \E i \in 1..Len(log) : log[i] = tag
    THEN CHOOSE i \in 1..Len(log) : log[i] = tag /\ \A j \in 1..(i - 1) : log[j] # tag
    ELSE 0

Count(log, tag) == Cardinality({i \in 1..Len(log) : log[i] = tag})

\* C5 as stated: a gated exchange has no Turn appended and no result written
\* to the caller by the final step unless a response-stage item was
\* registered and published for it and that item's decision was released.
C5_GatedAlwaysHasResponseStage ==
  \A e \in W :
    LET x == ex[e] IN
    (Gated(x) /\ (First(x.log, "turn_appended") > 0 \/ x.pc = "done")) =>
      /\ First(x.log, "pending_created_response") > 0
      /\ First(x.log, "popped_response") > 0

\* the parts of C5: the registering step, the popping step, the order in the log
C5_CreatedStep ==
  \A e \in W :
    (First(ex[e].log, "pending_created_response") = 0
       /\ First(ex'[e].log, "pending_created_response") > 0)
      => /\ pending'[ex[e].req_id] = Ref(e, "response")
         /\ ~items'[e].response.event

C5_PoppedStep ==
  \A e \in W :
    (First(ex[e].log, "popped_response") = 0
       /\ First(ex'[e].log, "popped_response") > 0)
      => items[e].response.event

C5_Order ==
  \A e \in W :
    LET x == ex[e] IN
    (Gated(x) /\ (First(x.log, "turn_appended") > 0
                  \/ First(x.log, "turn_completed") > 0 \/ x.pc = "done")) =>
      IF x.error = "rejected_request"
        THEN First(x.log, "pending_created_response") = 0
        ELSE /\ 0 < First(x.log, "pending_created_response")
             /\ First(x.log, "pending_created_response") < First(x.log, "popped_response")
             /\ First(x.log, "popped_response") < First(x.log, "turn_appended")
             /\ x.pc = "done" => First(x.log, "turn_appended") < First(x.log, "response_sent")

\* C5 (amended): for a gated exchange whose request-stage decision is not
\* reject, no Turn is appended, turn_completed is not published and the final
\* step writes nothing to the caller until a response-stage item has been
\* registered, pending_created published for it and its decision released;
\* a request-stage reject reaches the final step with no response-stage item.
C5_NoResultBeforeResponseRelease ==
  [][C5_CreatedStep /\ C5_PoppedStep]_vars /\ []C5_Order

C5_Witness ==
  \E e \in W :
    LET x == ex[e] IN
    /\ Gated(x) /\ x.pc = "done" /\ x.error # "rejected_request"
    /\ First(x.log, "popped_response") > 0
    /\ x.stream_to_panel /\ x.full_text = TA

\* C6 as stated: when the worker leaves the response-stage wait, a reject
\* gives status 200 and a completion carrying the decision's message, an
\* edit_response or inject_response gives exactly the decision's replacement
\* bytes, and any other action leaves the forwarded status and bytes as they
\* were.
C6_ResponseDecisionDetermines ==
  [][\A e \in W :
       (ex[e].pc = "wait_response" /\ ex'[e].pc # "wait_response") =>
         LET d == items[e].response
             x == ex[e]
             y == ex'[e]
         IN CASE d.action = "reject" ->
                   /\ y.status = 200
                   /\ ParseResp(y.raw_resp).vlm_text = d.message
              [] d.action \in {"edit_response", "inject_response"} ->
                   y.raw_resp = d.raw_response
              [] OTHER ->
                   y.status = x.status /\ y.raw_resp = x.raw_resp]_vars

\* the parts of C6: the release step, what is kept after it, what is returned
C6_ReleaseStep ==
  \A e \in W :
    (ex[e].pc = "wait_response" /\ ex'[e].pc # "wait_response") =>
      LET d == items[e].response
          x == ex[e]
          y == ex'[e]
      IN /\ y.pc = "final"
         /\ CASE d.action = "reject" ->
                   /\ y.status = 200
                   /\ y.raw_resp.k = "completion"
                   /\ ParseResp(y.raw_resp).vlm_text = d.message
              [] d.action \in {"edit_response", "inject_response"}
                   /\ d.raw_response # EmptyBytes ->
                   y.status = 200 /\ y.raw_resp = d.raw_response
              [] OTHER ->
                   y.status = x.status /\ y.raw_resp = x.raw_resp

C6_Kept ==
  \A e \in W :
    First(ex[e].log, "popped_response") > 0 =>
      /\ ex'[e].status = ex[e].status
      /\ ex'[e].raw_resp = ex[e].raw_resp

C6_Returned ==
  \A e \in W :
    LET x == ex[e] IN
    (First(x.log, "popped_response") > 0 /\ x.pc = "done") =>
      x.reply = <<[status |-> x.status, body |-> x.raw_resp]>>

\* C6 (amended): when the worker leaves the response-stage wait, a reject
\* gives status 200 and a completion carrying the decision's message; an
\* edit_response or inject_response whose decision holds non-empty
\* replacement bytes gives status 200 and exactly those bytes; every other
\* decision, an edit_response or inject_response without replacement bytes
\* included, leaves the forwarded status and bytes unchanged; the final step
\* writes the status and bytes so chosen to the caller.
C6_ResponseDecisionWithBytesDetermines ==
  [][C6_ReleaseStep /\ C6_Kept]_vars /\ []C6_Returned

C6_Witness ==
  \E e \in W :
    LET x == ex[e] IN
    /\ x.pc = "done" /\ x.error = "edited_response"
    /\ x.reply = <<[status |-> 200, body |-> EditedResponse]>>
    /\ x.reply_in[1].kind = "http_error"

\* the bytes the worker chooses from a released request-stage decision
Chosen(d, raw_req) ==
  IF d.action = "edit_request" /\ d.raw_request # EmptyBytes THEN d.raw_request
  ELSE raw_req

C7_RecheckStep ==
  \A e \in W :
    (ex[e].pc = "wait_request" /\ ex'[e].pc = "approved") =>
      LET chosen == Chosen(items[e].request, ex[e].raw_req) IN
      /\ items[e].request.action # "reject"
      /\ ex'[e].raw_sent = chosen
      /\ ex'[e].sst = SstCheck(last_vlm_text, ParseReq(chosen).user_text)

C7_ChosenKept ==
  \A e \in W :
    First(ex[e].log, "popped_request") > 0 =>
      /\ ex'[e].raw_sent = ex[e].raw_sent
      /\ ex'[e].sst = ex[e].sst

\* C7 as stated: after a request-stage decision other than reject, the
\* bytes the worker chooses are the decision's replacement bytes when
\* edit_request set them and the caller's bytes otherwise, the continuity
\* check is recomputed from their user text against the last-observed text as
\* it is at the release, and the bytes sent to the backend are the chosen
\* bytes.
C7_ForwardsChosenBytes ==
  /\ [][C7_RecheckStep /\ C7_ChosenKept]_vars
  /\ [](\A e \in W : (Gated(ex[e]) /\ ex[e].sent # <<>>) => ex[e].sent = <<ex[e].raw_sent>>)

\* C7 (amended): after a request-stage decision other than reject, the
\* bytes the worker chooses are the decision's replacement bytes when
\* edit_request set them and the caller's bytes otherwise, the continuity
\* check is recomputed from their user text against the last-observed text as
\* it is at the release, and the bytes sent to the backend are the chosen
\* bytes in synchronous mode and _enable_stream_request of the chosen bytes
\* (streaming flag and stream options injected) in streaming mode.
C7_ForwardsChosenBytesUpToStreamFlag ==
  /\ [][C7_RecheckStep /\ C7_ChosenKept]_vars
  /\ [](\A e \in W :
          (Gated(ex[e]) /\ ex[e].sent # <<>>) =>
            ex[e].sent = <<IF ex[e].stream_to_panel
                             THEN EnableStreamRequest(ex[e].raw_sent)
                             ELSE ex[e].raw_sent>>)

C7_Witness ==
  \E e \in W :
    LET x == ex[e] IN
    /\ Gated(x) /\ x.stream_to_panel
    /\ x.raw_req = Request(TA) /\ x.raw_sent = EditedRequest
    /\ x.sent = <<EnableStreamRequest(EditedRequest)>>
    /\ x.sst.prev_available /\ x.sst.detail = <<"Prefix match", 1>>

\* the handler positions at which a worker waits on a decision or is inside
\* a backend call
Waiting(x) == x.pc \in {"wait_request", "wait_response", "stream"}

InLedger(id) == \E i \in 1..Len(ledger) : ledger[i].turn_id = id

\* C8: if a Turn with id X is in the turn map or in the ledger file, no
\* PendingItem is registered under X and no worker of an exchange with id X
\* is waiting on a decision or on the backend.
C8_LedgerHasNoUnresolvedExchange ==
  \A id \in Ids :
    (turns[id] # <<>> \/ InLedger(id)) =>
      /\ pending[id] = NoRef
      /\ \A e \in W : ex[e].req_id = id => ~Waiting(ex[e])

\* the exchanges whose final step has appended their Turn
Resolved == {e \in W : First(ex[e].log, "turn_appended") > 0}

\* C9: the number of records in the ledger file and the number of Turns in
\* the turn map both equal the number of exchanges that have resolved.
C9_OneRecordPerResolvedExchange ==
  /\ Len(ledger) = Cardinality(Resolved)
  /\ Cardinality({id \in Ids : turns[id] # <<>>}) = Cardinality(Resolved)

\* C10: a handler that has ended has run the final step: its log holds
\* turn_appended once, then turn_completed once, then response_sent, in that
\* order (an exchange whose handler ended otherwise never reaches the final
\* step).
C10_EndedHandlerRanFinalStep ==
  \A e \in W :
    LET x == ex[e] IN
    x.pc \in {"done", "failed"} =>
      /\ Count(x.log, "turn_appended") = 1
      /\ Count(x.log, "turn_completed") = 1
      /\ Count(x.log, "response_sent") = 1
      /\ First(x.log, "turn_appended") < First(x.log, "turn_completed")
      /\ First(x.log, "turn_completed") < First(x.log, "response_sent")

\* the texts of the stream_delta messages of deltas, joined in order
RECURSIVE JoinDeltas(_)
JoinDeltas(ds) ==
  IF ds = <<>> THEN Empty ELSE ds[1].delta \o JoinDeltas(Tail(ds))

\* the relay has returned the completion it synthesized from an event stream
Synthesized(x) ==
  /\ x.reply_in # <<>> /\ x.reply_in[1].kind = "sse"
  /\ x.pc \in {"wait_response", "final", "reply", "done"}
  /\ x.error = ""

\* the parts of C11: each event read either adds one non-empty delta at the
\* end of the transcript or leaves it as it is
C11_DeltaStep ==
  \A e \in W :
    LET x == ex[e]
        y == ex'[e]
    IN (x.pc = "stream" /\ y.full_text # x.full_text) =>
         /\ Len(y.deltas) = Len(x.deltas) + 1
         /\ y.deltas[Len(y.deltas)].delta # Empty
         /\ y.full_text = x.full_text \o y.deltas[Len(y.deltas)].delta

\* C11: the message content of the completion the streaming relay
\* synthesizes is the concatenation, in arrival order, of the non-empty
\* content deltas received before the terminator or the end of the stream,
\* whatever malformed or empty events came between them.
C11_SynthesizedIsConcatenation ==
  /\ [][C11_DeltaStep]_vars
  /\ [](\A e \in W :
          Synthesized(ex[e]) =>
            /\ ex[e].raw_resp.k = "completion"
            /\ ParseResp(ex[e].raw_resp).vlm_text = JoinDeltas(ex[e].deltas)
            /\ ex[e].full_text = JoinDeltas(ex[e].deltas))

C11_Witness ==
  \E e \in W :
    /\ Synthesized(ex[e]) /\ ex[e].pc = "done"
    /\ ParseResp(ex[e].reply[1].body).vlm_text = <<"b", "a">>
    /\ Len(ex[e].deltas) = 3

\* the parts of C12: what one step publishes, and the published sequence
C12_PublishStep ==
  \A e \in W :
    LET x == ex[e]
        y == ex'[e]
        n == Len(y.deltas)
    IN /\ (x.pc = "stream" /\ y.full_text # x.full_text) =>
            /\ n = Len(x.deltas) + 1
            /\ y.deltas[n] = [delta |-> y.deltas[n].delta, done |-> FALSE,
                               chars |-> Len(y.full_text)]
            /\ y.full_text = x.full_text \o y.deltas[n].delta
       /\ y.deltas # x.deltas =>
            /\ x.pc = "stream"
            /\ n = Len(x.deltas) + 1
            /\ \A i \in 1..Len(x.deltas) : y.deltas[i] = x.deltas[i]
            /\ y.deltas[n].done \/ y.full_text # x.full_text

C12_Published ==
  \A e \in W :
    LET ds == ex[e].deltas IN
    /\ \A i \in 1..Len(ds) :
         IF ds[i].done
           THEN i = Len(ds) /\ ds[i].delta = Empty
           ELSE /\ ds[i].delta # Empty
                /\ ds[i].chars = Len(JoinDeltas(SubSeq(ds, 1, i)))
    /\ Synthesized(ex[e]) => (ds # <<>> /\ ds[Len(ds)].done)
    /\ Count(ex[e].log, "stream_delta") + Count(ex[e].log, "stream_done") = Len(ds)

\* C12: during a streamed exchange every non-empty delta is published as one
\* stream_delta with done false whose character count is the length of the
\* transcript including that delta, and when the stream reaches its
\* terminator or its end exactly one stream_delta with done true is
\* published, after all the delta events of that exchange.
C12_DeltasArePublished ==
  [][C12_PublishStep]_vars /\ []C12_Published

C12_Witness ==
  \E e \in W :
    /\ Gated(ex[e]) /\ ex[e].pc = "wait_response"
    /\ ex[e].deltas = <<[delta |-> TA, done |-> FALSE, chars |-> 1],
                         [delta |-> TB, done |-> FALSE, chars |-> 2],
                         [delta |-> Empty, done |-> TRUE, chars |-> 2]>>

\* every message enqueued to observer o so far, in the order of its queue:
\* those it has written to its client, then those still in the queue
Got(o) == obs[o].seen \o queues[o]

Has(seq, m) == \E i \in 1..Len(seq) : seq[i] = m

Where(seq, m) == CHOOSE i \in 1..Len(seq) : seq[i] = m

\* C13: a broadcast is enqueued to every observer that was registered when
\* it was made, no observer gets a message twice, and every observer gets the
\* messages in the order in which their broadcasts were published: two
\* observers that both get two messages get them in the same order.
C13_ObserversReceiveInPublishOrder ==
  /\ \A p \in Publishers :
       pub[p].pc = "put" =>
         \A j \in 1..(pub[p].i - 1) : Has(Got(pub[p].clients[j]), Msg(p, pub[p].sent + 1))
  /\ \A o \in Observers :
       \A i, j \in 1..Len(Got(o)) : Got(o)[i] = Got(o)[j] => i = j
  /\ \A o1, o2 \in Observers :
       \A i, j \in 1..Len(Got(o1)) :
         (i < j /\ Has(Got(o2), Got(o1)[i]) /\ Has(Got(o2), Got(o1)[j]))
           => Where(Got(o2), Got(o1)[i]) < Where(Got(o2), Got(o1)[j])

\* the parts of C14: the copy a broadcast takes when it starts, who may
\* enqueue to a queue, and what a broadcast has done when it returns
C14_StartStep ==
  \A p \in Publishers :
    (pub[p].pc = "idle" /\ pub'[p].pc = "put") =>
      \A o \in Observers : obs[o].pc = "gone" => ~Has(pub'[p].clients, o)

C14_PutStep ==
  /\ \A p \in Publishers :
       (pub[p].pc = "put" /\ pub'[p].pc = "put") => pub'[p].clients = pub[p].clients
  /\ \A o \in Observers :
       Len(queues'[o]) > Len(queues[o]) =>
         \E p \in Publishers :
           /\ pub[p].pc = "put" /\ pub[p].i <= Len(pub[p].clients)
           /\ pub[p].clients[pub[p].i] = o
           /\ queues'[o] = Append(queues[o], Msg(p, pub[p].sent + 1))

C14_EndStep ==
  \A p \in Publishers :
    (pub[p].pc = "put" /\ pub'[p].pc = "idle") =>
      /\ pub[p].dead = {}
      /\ sse_clients' = sse_clients
      /\ \A j \in 1..Len(pub[p].clients) :
           Has(Got(pub[p].clients[j]), Msg(p, pub[p].sent + 1))

\* C14: a broadcast that starts after sse_unregister has returned for an
\* observer enqueues nothing to that observer's queue, ends without an error
\* and has enqueued its message to every observer registered when it started.
C14_NoDeliveryAfterUnregister ==
  [][C14_StartStep /\ C14_PutStep /\ C14_EndStep]_vars

C14_Witness ==
  /\ obs[1].pc = "gone" /\ Has(Got(1), Msg(1, 1)) /\ ~Has(Got(1), Msg(2, 1))
  /\ Has(Got(2), Msg(2, 1)) /\ pub[2].pc = "idle" /\ pub[2].sent = 1

\* the messages observer o has been sent and has not written to its client
Backlog(o) == Len(queues[o])

\* C15: a stalled observer is dropped from the hub's observer set: an
\* observer that has stopped draining its queue is no longer registered once
\* every broadcast of the run has been enqueued to it and none taken.
C15_StalledObserverIsDropped ==
  \A o \in Observers :
    (obs[o].pc = "stalled" /\ Backlog(o) >= NumPublishers * MaxBroadcasts
       /\ \A p \in Publishers : pub[p].pc = "idle")
      => ~Has(sse_clients, o)

\* the continuity check has been applied to previous text p and current c
SstDone == calc.fn = "sst_check" /\ calc.out # <<>>

\* C16: the continuity check always returns verified; with no previous
\* text it returns match and no previous text available; with previous text
\* p it returns match exactly when the current text c starts with p, and on a
\* mismatch it reports the 0-based index of the first character at which p
\* and c differ (the shorter length when one is a proper prefix of the other)
\* with the length of c and the length of p.
C16_ContinuityCheck ==
  SstDone =>
    LET prev == calc.args[1]
        c == calc.args[2]
        r == calc.out[1]
    IN /\ r.verified
       /\ prev = <<>> => (r.match /\ ~r.prev_available)
       /\ prev # <<>> =>
            LET p == prev[1]
                ml == IF Len(p) <= Len(c) THEN Len(p) ELSE Len(c)
            IN /\ r.prev_available
               /\ r.match <=> (Len(p) <= Len(c) /\ \A i \in 1..Len(p) : c[i] = p[i])
               /\ ~r.match =>
                    /\ Len(r.detail) = 4
                    /\ r.detail[1] = "VIOLATION pos"
                    /\ r.detail[2] \in 0..ml
                    /\ \A i \in 1..r.detail[2] : p[i] = c[i]
                    /\ r.detail[2] < ml => p[r.detail[2] + 1] # c[r.detail[2] + 1]
                    /\ r.detail[3] = Len(c)
                    /\ r.detail[4] = Len(p)

C16_Witness ==
  /\ SstDone
  /\ calc.args = <<<<TAB>>, TA>>
  /\ ~calc.out[1].match
  /\ calc.out[1].detail = <<"VIOLATION pos", 1, 1, 2>>

\* the parts of C17: what the resolving step does to the last-observed text,
\* and that no other step touches it
C17_ResolveStep ==
  \A e \in W :
    (First(ex[e].log, "turn_appended") = 0 /\ First(ex'[e].log, "turn_appended") > 0) =>
      LET text == ParseResp(ex'[e].raw_resp).vlm_text IN
      /\ ex'[e].raw_resp = ex[e].raw_resp
      /\ last_vlm_text' = IF text # Empty THEN <<text>> ELSE last_vlm_text

C17_OnlyResolveWrites ==
  last_vlm_text' # last_vlm_text =>
    \E e \in W :
      First(ex[e].log, "turn_appended") = 0 /\ First(ex'[e].log, "turn_appended") > 0

C17_ResolvedBytesReturned ==
  \A e \in W :
    /\ First(ex[e].log, "turn_appended") > 0 => ex'[e].raw_resp = ex[e].raw_resp
    /\ ex'[e].pc = "done" => ex'[e].reply[1].body = ex'[e].raw_resp

\* C17: the step that resolves an exchange sets the shared last-observed
\* assistant text to the completion text of the bytes returned to the caller
\* when that text is non-empty and leaves it unchanged otherwise, and no
\* other step changes it.
C17_LastTextFollowsResolutions ==
  [][C17_ResolveStep /\ C17_OnlyResolveWrites /\ C17_ResolvedBytesReturned]_vars

C17_Witness ==
  /\ last_vlm_text = <<TNo>>
  /\ \E e \in W : ex[e].pc = "done" /\ ex[e].error = "rejected_response"
                    /\ ParseResp(ex[e].reply[1].body).vlm_text = TNo
  /\ \E e \in W : ex[e].pc = "done" /\ ex[e].error = ""
                    /\ ParseResp(ex[e].reply[1].body).vlm_text = TA

\* the handler positions from which a worker goes on by itself, without a
\* decision call
Running(x) ==
  x.pc \in {"entered", "approved", "forwarded", "connect", "stream", "final", "reply"}

\* the parts of C18: the step in which a handler fails, and what the other
\* handlers and the decision endpoints can still do
C18_FailStep ==
  \A e \in W :
    (ex[e].pc # "failed" /\ ex'[e].pc = "failed") =>
      /\ ex'[e].reply = <<[status |-> 500, body |-> Junk]>>
      /\ \A d \in W \ {e} : ex'[d] = ex[d]
      /\ UNCHANGED <<last_vlm_text, turns, turn_index, ledger, hub>>
      /\ \A id \in Ids : id # ex[e].req_id => pending'[id] = pending[id]
      /\ \A d \in W \ {e} : items'[d] = items[d]

C18_FailedStays ==
  \A e \in W : ex[e].pc = "failed" => ex'[e] = ex[e]

C18_OthersServed ==
  /\ \A d \in W : Running(ex[d]) => ENABLED Worker(d)
  /\ \A d \in W :
       (ex[d].pc = "idle" /\ \A c \in W : c < d => ex[c].pc # "idle") => ENABLED Worker(d)
  /\ \A d \in W :
       (ex[d].pc \in {"wait_request", "wait_response"}
          /\ pending[ex[d].req_id] = Ref(d, IF ex[d].pc = "wait_request"
                                             THEN "request" ELSE "response"))
         => ENABLED (\E pid \in Ids :
                       Approve(pid) /\ (items'[d]["request"].event \/ items'[d]["response"].event))
  /\ \A d \in W :
       (ex[d].pc \in {"wait_request", "wait_response"}
          /\ items[d][IF ex[d].pc = "wait_request" THEN "request" ELSE "response"].event)
         => ENABLED Worker(d)

\* C18: a failure raised inside a request handler becomes a 500 reply for
\* that request and touches nothing else, and the server keeps serving: every
\* other proxy handler can still take its next step and every registered
\* item can still be decided and released.
C18_FailureIsContained ==
  [][C18_FailStep /\ C18_FailedStays]_vars /\ []C18_OthersServed

C18_Witness ==
  /\ ex[1].pc = "failed" /\ ~ParseReq(ex[1].raw_req).ok
  /\ ex[1].reply = <<[status |-> 500, body |-> Junk]>>
  /\ ex[2].pc = "done" /\ ex[2].reply[1].status = 200
  /\ Len(ledger) = 1

\* the bytes of exchange x that the parsers cannot read as the schema says:
\* not a JSON object, or a JSON object whose nested values have other types
BadJson(x) ==
  \/ \E raw \in {x.raw_req, x.raw_sent} :
        raw # EmptyBytes /\ (~IsJsonObject(raw) \/ ~ParseReq(raw).ok)
  \/ x.raw_resp # EmptyBytes /\ (~IsJsonObject(x.raw_resp) \/ ~ParseResp(x.raw_resp).ok)

\* C19: an exchange that met malformed or schema-violating JSON, in its
\* request or in the backend's reply, is not aborted: when its handler has
\* ended, its Turn has been appended and it was answered by the final step.
C19_BadJsonNeverAborts ==
  \A e \in W :
    (ex[e].pc \in {"done", "failed"} /\ BadJson(ex[e])) =>
      /\ ex[e].pc = "done"
      /\ Count(ex[e].log, "turn_appended") = 1

\* malformed bytes that are no JSON at all are tolerated, as C19 says
C19_MalformedTolerated ==
  \E e \in W :
    /\ ex[e].pc = "done" /\ ~IsJsonObject(ex[e].raw_resp)
    /\ ex[e].raw_resp # EmptyBytes
    /\ Count(ex[e].log, "turn_appended") = 1

\* the backend call of exchange x has failed: a non-2xx reply, or no reply
CallFailed(x) ==
  x.reply_in # <<>> /\ x.reply_in[1].kind \in {"http_error", "http_error_cut", "no_reply"}

\* a response-stage decision has put other bytes in place of the reply
Replaced(x) == x.error \in {"rejected_response", "edited_response"}

\* C20: when the backend call of an exchange has failed, the forwarder has
\* returned (the handler did not end in a 500), the status it returned is an
\* error status and the body a JSON error body; a gated exchange has its
\* response-stage item published and released before the final step, and the
\* Turn appended by the final step records that status and the error.
C20_BackendFailureIsReturned ==
  \A e \in W :
    LET x == ex[e] IN
    CallFailed(x) =>
      /\ x.pc # "failed"
      /\ ~Replaced(x) =>
            /\ x.status >= 400 /\ x.error # ""
            /\ IsJsonObject(x.raw_resp) /\ x.raw_resp.k = "errjson"
      /\ x.pc \in {"reply", "done"} =>
            /\ Gated(x) =>
                  /\ First(x.log, "pending_created_response") > 0
                  /\ First(x.log, "popped_response") > First(x.log, "pending_created_response")
                  /\ First(x.log, "turn_appended") > First(x.log, "popped_response")
            /\ \E i \in 1..Len(ledger) :
                  /\ ledger[i].turn_id = x.req_id
                  /\ ledger[i].response_status >= 400
                  /\ ledger[i].error \in {"http", "transport"}

\* what does hold after a call that found no backend at all: 502 with the
\* gateway's own JSON error body, through gating, into the Turn
C20_NoReplyIsRecorded ==
  \E e \in W :
    LET x == ex[e] IN
    /\ x.reply_in # <<>> /\ x.reply_in[1].kind = "no_reply"
    /\ Gated(x) /\ x.pc = "done" /\ ~Replaced(x)
    /\ x.reply = <<[status |-> 502, body |-> ErrJson]>>
    /\ Len(ledger) = 1 /\ ledger[1].response_status = 502 /\ ledger[1].error = "transport"

\* the body of a non-2xx reply broke off: the handler has ended in a 500
C20_CutErrorBodyAborts ==
  \E e \in W :
    /\ ex[e].reply_in # <<>> /\ ex[e].reply_in[1].kind = "http_error_cut"
    /\ ex[e].pc = "failed" /\ ledger = <<>>

\* the n-th started instance has ended, or the n-th Popen call failed, and
\* the supervisor has made no further call
Ended(n) ==
  /\ runner.attempts = n
  /\ \/ runner.pc = "finally"
     \/ runner.pc = "wait" /\ procs[main_proc].state = "exited"

\* C21: whenever the supervised process has exited (with any code) or has
\* failed to start, the supervisor eventually makes a new Popen call, unless
\* shutdown is requested before it does; this holds after every exit.
C21_ExitLeadsToRelaunch ==
  \A n \in 1..(MaxLaunches - 1) :
    (Ended(n) /\ ~shutdown) ~> (runner.attempts > n \/ shutdown)

C21_Witness ==
  /\ ~shutdown /\ Len(procs) = 2 /\ runner.attempts = 3
  /\ procs[1] = [state |-> "exited", rc |-> 0]
  /\ procs[2].state = "running" /\ main_proc = 2

\* the parts of C22: no launch once _stop_main has run, nothing left running
C22_NoLaunchStep ==
  (shutdown /\ stopper.pc \in {"done", "exited"}) => Len(procs') = Len(procs)

C22_NothingRunning ==
  stopper.pc \in {"done", "exited"} =>
    \A i \in 1..Len(procs) : procs[i].state = "exited"

\* C22: once the shutdown event is set and _stop_main has run, the supervisor
\* launches no further process and no launched process is still running.
C22_ShutdownStopsEverything ==
  [][C22_NoLaunchStep]_vars /\ []C22_NothingRunning

\* the exchanges whose handler has been given its correlation id
Entered == {e \in W : First(ex[e].log, "turn_started") > 0}

\* C23: no two exchanges handled by the gateway have the same correlation id.
C23_IdsAreUnique ==
  \A e \in Entered, d \in Entered : e # d => ex[e].req_id # ex[d].req_id

\* two exchanges with one id: the Turn of the first is overwritten by the
\* Turn of the second, while the ledger holds both
C23_TurnOverwritten ==
  \E e \in W, d \in W :
    /\ e # d /\ ex[e].req_id = ex[d].req_id
    /\ ex[e].pc = "done" /\ ex[d].pc = "done"
    /\ Len(ledger) = 2 /\ ledger[1] # ledger[2]
    /\ turns[ex[e].req_id] = <<ledger[2]>>

\* C24: a Turn is put in the turn map only by the final step of an exchange,
\* and once the turn map holds a Turn for an id, it holds that same Turn,
\* with the same contents, in every later state.
C24_TurnsAreNeverReplaced ==
  [][\A id \in Ids :
       /\ turns[id] # <<>> => turns'[id] = turns[id]
       /\ (turns[id] = <<>> /\ turns'[id] # <<>>) =>
             \E e \in W : /\ ex[e].pc = "final" /\ ex'[e].pc = "reply"
                           /\ ex[e].req_id = id /\ turns'[id] = <<TurnItem(ex[e])>>]_vars

\* the exchanges that have been given a slot of the turn index: a gated one
\* when its request-stage item is created, any other one in its final step
HasSlot(e) ==
  First(ex[e].log, "pending_created_request") > 0 \/ First(ex[e].log, "turn_appended") > 0

\* the parts of C25: the index grows at the head only and keeps its order;
\* a slot moves from request stage to response stage to completed turn and
\* never back; there is one slot for each exchange that has been given one
C25_GrowsAtHead ==
  LET n == Len(turn_index) n2 == Len(turn_index') IN
  /\ n2 >= n
  /\ \A i \in 1..n : turn_index'[i + (n2 - n)].id = turn_index[i].id

C25_SlotsMoveForward ==
  LET n == Len(turn_index) n2 == Len(turn_index') IN
  n2 >= n =>
    \A i \in 1..n :
      LET old == turn_index[i] new == turn_index'[i + (n2 - n)] IN
      /\ old.kind = "turn" => new = old
      /\ (old.kind = "pending" /\ old.stage = "response") =>
            ~(new.kind = "pending" /\ new.stage = "request")

C25_OneSlotEach ==
  /\ Len(turn_index) = Cardinality({e \in W : HasSlot(e)})
  /\ \A i \in 1..Len(turn_index), j \in 1..Len(turn_index) :
        i # j => turn_index[i].id # turn_index[j].id
  /\ \A e \in W : HasSlot(e) => IndexHas(turn_index, ex[e].req_id)

\* C25: the turn index only grows, at its head, and keeps the order of its
\* slots; the slot of an exchange is updated in place from request stage to
\* response stage to completed turn and is never removed or moved back; each
\* exchange that has a slot has exactly one.
C25_IndexIsStable ==
  [][C25_GrowsAtHead /\ C25_SlotsMoveForward]_vars /\ []C25_OneSlotEach

\* gating is disabled or auto-approve is set, in the configuration the
\* handler of x loaded
Ungated(x) == ~x.firewall_enabled \/ x.auto_approve

\* the slots of idx2 that are not slots of idx: inserted or rewritten
Written(idx, idx2) ==
  {idx2[i] : i \in 1..Len(idx2)} \ {idx[i] : i \in 1..Len(idx)}

\* the parts of C26: what a step of an ungated handler changes, and where
\* an ungated handler can be
C26_Step ==
  \A e \in W :
    (Ungated(ex'[e]) /\ ex'[e] # ex[e]) =>
      /\ pending' = pending
      /\ items'[e] = items[e]
      /\ \A s \in Written(turn_index, turn_index') : s.kind = "turn"

C26_Position ==
  \A e \in W :
    Ungated(ex[e]) =>
      /\ items[e] = [request |-> NewItem, response |-> NewItem]
      /\ \A id \in Ids : pending[id][1] # e
      /\ ex[e].pc \notin {"wait_request", "wait_response", "approved", "forwarded", "connect"}
      /\ Count(ex[e].log, "pending_created_request") = 0
      /\ Count(ex[e].log, "pending_created_response") = 0
      /\ Running(ex[e]) => ENABLED Worker(e)

\* C26: with gating disabled or auto-approve set, no step of the handler
\* creates a PendingItem, changes the registry or writes a placeholder slot,
\* the handler is never waiting for a decision, and it can always take its
\* next step without any decision call.
C26_UngatedNeverWaits ==
  [][C26_Step]_vars /\ []C26_Position

C26_Witness ==
  /\ ex[1].pc = "done" /\ ex[1].firewall_enabled /\ ex[1].auto_approve
  /\ ex[1].reply[1].status = 200
  /\ updated = {} /\ \A id \in Ids : pending[id] = NoRef
  /\ Len(turn_index) = 1 /\ turn_index[1].kind = "turn"

\* the response-stage item of exchange e is the one registered under its id
OwnResponseRegistered(e) == pending[ex[e].req_id] = Ref(e, "response")

C27_DeltaStep ==
  \A e \in W :
    LET x == ex[e]
        y == ex'[e]
        r == pending[x.req_id]
    IN (x.pc = "stream" /\ Count(y.log, "stream_delta") > Count(x.log, "stream_delta")
          /\ r # NoRef /\ r[2] = "response") =>
         items'[r[1]].response.view =
           [set |-> TRUE, vlm_text |-> y.full_text, streaming |-> TRUE, done |-> FALSE]

C27_TerminalStep ==
  \A e \in W :
    LET x == ex[e]
        y == ex'[e]
    IN (x.pc = "stream" /\ Gated(x)
          /\ Count(y.log, "stream_done") > Count(x.log, "stream_done")) =>
         /\ y.pc = "wait_response"
         /\ items'[e].response.view =
              [set |-> TRUE, vlm_text |-> x.full_text, streaming |-> FALSE, done |-> FALSE]

C27_ViewWhileStreaming ==
  \A e \in W :
    LET x == ex[e]
        v == items[e].response.view
    IN (Gated(x) /\ x.stream_to_panel /\ OwnResponseRegistered(e)
          /\ \A d \in W \ {e} : First(ex[d].log, "turn_started") > 0 => ex[d].req_id # x.req_id) =>
         /\ (x.pc = "stream" /\ Count(x.log, "stream_delta") > 0) =>
               v = [set |-> TRUE, vlm_text |-> x.full_text, streaming |-> TRUE, done |-> FALSE]
         /\ (x.pc = "wait_response" /\ Count(x.log, "stream_done") > 0) =>
               v = [set |-> TRUE, vlm_text |-> x.full_text, streaming |-> FALSE, done |-> FALSE]

C28_SkipStep ==
  \A e \in W :
    LET x == ex[e]
        y == ex'[e]
    IN y.skipped # x.skipped =>
         /\ x.pc = "stream" /\ y.pc = "stream"
         /\ y = [x EXCEPT !.skipped = x.skipped + 1]
         /\ items' = items

C28_RelayGoesOn ==
  \A e \in W :
    LET x == ex[e] IN
    x.skipped > 0 =>
      /\ x.pc = "stream" => ENABLED StreamEvent(e, {ev \in StreamEvents : ev.kind = "done"})
      /\ (x.pc = "stream" /\ Len(x.full_text) < MaxStream) =>
            ENABLED StreamEvent(e, {ev \in StreamEvents : ev.kind = "delta" /\ ev.t # Empty})
      /\ Count(x.log, "stream_delta") = Len(SelectSeq(x.deltas, LAMBDA m : ~m.done))
      /\ JoinDeltas(x.deltas) = x.full_text
      /\ Synthesized(x) =>
            /\ x.status = 200 /\ x.raw_resp.k = "completion"
            /\ x.raw_resp.t = JoinDeltas(x.deltas)

\* C28: a streaming event whose payload is not JSON or not a JSON object is
\* skipped: reading it changes nothing but the count of frames read (no
\* stream_delta, the same transcript, the same parsed view), the relay stays
\* in its loop, can read every later event, and returns the completion of the
\* deltas alone.
C28_CorruptFrameIsSkipped ==
  [][C28_SkipStep]_vars /\ []C28_RelayGoesOn

C28_Witness ==
  /\ ex[1].skipped = 1 /\ ex[1].pc = "done" /\ ex[1].error = ""
  /\ Count(ex[1].log, "stream_delta") = 2
  /\ ex[1].reply[1].status = 200 /\ ex[1].reply[1].body.t = TAB

\* C29: the completion the relay returns at the terminator or the end of the
\* stream has the accumulated transcript as its content, the model name the
\* stream reported as its model, and the finish reason the stream reported
\* as its finish reason.
C29_EnvelopeCarriesStreamFields ==
  \A e \in W :
    LET x == ex[e] IN
    Synthesized(x) =>
      /\ x.raw_resp.k = "completion"
      /\ x.raw_resp.t = x.full_text
      /\ x.model # "" => x.raw_resp.m = x.model
      /\ x.finish_reason # "" => FinishReason(x.raw_resp) = x.finish_reason

\* content and model do follow the stream
C29_ContentAndModelKept ==
  \E e \in W :
    /\ Synthesized(ex[e]) /\ ex[e].model = "up" /\ ex[e].full_text = TAB
    /\ ex[e].raw_resp = Completion(TAB, "up")
    /\ ex[e].finish_reason = "length"

\* thread t is blocked: on a release event, or in a call to the backend
Blocked(t) == Stmt(t).op \in {"wait", "call"}

\* the parts of C30: what a worker holds where; who can hold a lock at all
C30_WorkerHoldsNothing ==
  \A w \in LockWorkers :
    /\ Blocked(w) => (lock # w /\ sse_lock # w)
    /\ Stmt(w).op = "put" => (lock # w /\ sse_lock # w)
    /\ Stmt(w).op \in {"sse_acquire", "sse_release"} => lock # w

C30_LocksComeFree ==
  /\ lock # 0 => (Stmt(lock).op = "release" /\ ENABLED Release(lock))
  /\ sse_lock # 0 => (Stmt(sse_lock).op = "sse_release" /\ ENABLED SseRelease(sse_lock))
  /\ (\A w \in LockWorkers : Stmt(w).op \in {"wait", "end"}) =>
        /\ lock \notin LockWorkers /\ sse_lock \notin LockWorkers
        /\ \A t \in {Decider, Lister} :
             /\ (Stmt(t).op = "acquire" /\ lock \notin {Decider, Lister}) =>
                   ENABLED Acquire(t)
             /\ (Stmt(t).op = "sse_acquire" /\ sse_lock \notin {Decider, Lister}) =>
                   ENABLED SseAcquire(t)

\* C30: a gateway worker holds neither STATE.lock nor STATE.sse_lock while
\* it waits on a release event, while it is in a call to the backend, or
\* while it fills the observers' queues, and it never calls broadcast with
\* STATE.lock held; a lock that is held is held by a thread about to release
\* it, so when the workers wait for decisions the decision and listing
\* calls can take both locks.
C30_WaitingWorkerHoldsNoLock ==
  C30_WorkerHoldsNothing /\ C30_LocksComeFree

C30_Witness ==
  /\ Stmt(1).op = "wait" /\ Stmt(1).eff = "response" /\ thr[1].prog = "stream"
  /\ Stmt(2).op = "wait" /\ Stmt(2).eff = "request"
  /\ lock = Decider /\ thr[Decider].target = <<1, "response">>
  /\ sse_lock = 0 /\ <<2, "request">> \in registered

\* the parts of C31: the decision step, what the relay can still do, its
\* steps after the decision, when the decision reaches the result
\* q is the item p after a decision call that wrote to it
Decided(p, q) == q.event /\ (DecisionOf(q) # DecisionOf(p) \/ ~p.event)

C31_DecisionStep ==
  \A e \in W :
    (ex[e].pc \in {"connect", "stream"} /\ Decided(items[e].response, items'[e].response))
      => /\ ex'[e] = ex[e]
         /\ pending' = pending

C31_RelayRuns ==
  \A e \in W :
    (ex[e].pc = "stream" /\ items[e].response.event)
      => /\ Len(ex[e].full_text) < MaxStream
              => ENABLED (/\ StreamEvent(e, StreamEvents)
                          /\ ex'[e].pc = "stream"
                          /\ Len(ex'[e].deltas) = Len(ex[e].deltas) + 1)
         /\ ENABLED (/\ StreamEvent(e, StreamEvents)
                     /\ First(ex'[e].log, "stream_done") > 0)

C31_RelayStep ==
  \A e \in W :
    (ex[e].pc = "stream" /\ items[e].response.event /\ ex'[e] # ex[e])
      => /\ ex'[e].full_text # ex[e].full_text
              => /\ ex'[e].pc = "stream"
                 /\ \E ev \in StreamEvents \cup RelayEvents :
                      /\ ex'[e].full_text = Accumulate(ex[e].full_text, ev.t)
                      /\ ex'[e].deltas =
                           Append(ex[e].deltas, StreamDelta(ev.t, FALSE, ex'[e].full_text))
         /\ ex'[e].error \notin {"rejected_response", "edited_response"}
         /\ ex'[e].reply = <<>> \/ ex'[e].pc = "failed"

C31_OutcomeAfterStream ==
  \A e \in W :
    (ex'[e].error \in {"rejected_response", "edited_response"}
       /\ ex[e].error \notin {"rejected_response", "edited_response"})
      => /\ ex[e].pc = "wait_response"
         /\ ex[e].stream_to_panel /\ ex[e].reply_in[1].kind = "sse"
              => \/ First(ex[e].log, "stream_done") > 0
                 \/ ex[e].error = "transport"

\* C31: a decision released on the response-stage item while the backend
\* call of a streaming exchange is under way changes nothing of the worker:
\* the relay can still read every further event up to the terminator, each
\* further delta is published as stream_delta, and the decision reaches the
\* status and body of the exchange only after the stream has ended.
C31_DecisionNeverCancelsRelay ==
  /\ [][C31_DecisionStep /\ C31_RelayStep /\ C31_OutcomeAfterStream]_vars
  /\ []C31_RelayRuns

C31_Witness ==
  \E e \in W :
    /\ ex[e].pc = "stream"
    /\ items[e].response.event /\ items[e].response.action = "reject"
    /\ Len(ex[e].deltas) = 1
    /\ ENABLED (StreamEvent(e, StreamEvents) /\ Len(ex'[e].deltas) = 2)

\* the parts of C32: what a decision call leaves alone, what it writes, who
\* removes a registry entry
C32_DecisionFrame ==
  (\E e \in W, stage \in {"request", "response"} :
      Decided(items[e][stage], items'[e][stage]))
    => /\ pending' = pending
       /\ turn_index' = turn_index
       /\ turns' = turns
       /\ last_vlm_text' = last_vlm_text
       /\ ledger' = ledger
       /\ ex' = ex

C32_DecisionWrites ==
  \A e \in W, stage \in {"request", "response"} :
    Decided(items[e][stage], items'[e][stage])
      => /\ \E id \in Ids : pending[id] = Ref(e, stage) /\ updated' = updated \cup {id}
         /\ items'[e][stage].event
         /\ items'[e][stage].view = items[e][stage].view
         /\ \A d \in W, s \in {"request", "response"} :
              <<d, s>> # <<e, stage>> => items'[d][s] = items[d][s]

C32_OnlyWaiterRemoves ==
  \A id \in Ids :
    LET r == pending[id] IN
    (r # NoRef /\ pending'[id] = NoRef)
      => /\ ex[r[1]].pc = (IF r[2] = "request" THEN "wait_request" ELSE "wait_response")
         /\ ex'[r[1]].pc # ex[r[1]].pc
         /\ Released(items[r[1]][r[2]])

\* C32: a decision call leaves the registry's entries, the turn index, the
\* turn map and the last-observed text as they are and writes only the
\* decision fields and the event of the item it found, with pending_updated
\* published for its id; a registry entry is removed only by a step of the
\* worker that waited on the item of that entry.
C32_DecisionsWriteOnlyTheItem ==
  [][C32_DecisionFrame /\ C32_DecisionWrites /\ C32_OnlyWaiterRemoves]_vars

\* the decision call's own part of C32
C32_DecisionCallFrame == [][C32_DecisionFrame /\ C32_DecisionWrites]_vars

\* a worker has removed the entry of an item another worker waits on
C32_RemovedByAnother ==
  \E e \in W, d \in W :
    /\ e # d /\ ex[e].req_id = ex[d].req_id
    /\ ex[d].pc = "wait_request" /\ pending[ex[d].req_id] = NoRef
    /\ "popped_request" = ex[e].log[Len(ex[e].log)]

\* the parts of C33: the two calls, the loop at its top and in its idle loop
C33_CallStep ==
  notices' # notices
    => /\ Len(notices') = Len(notices) + 1
       /\ SubSeq(notices', 1, Len(notices)) = notices
       /\ notices'[Len(notices')] = "paused" => marker'
       /\ notices'[Len(notices')] = "unpaused" => ~marker'
       /\ agent' = agent

C33_CallsAnswer ==
  Len(notices) < MaxNotices
    => /\ ENABLED (PostPause /\ marker' /\ notices'[Len(notices')] = "paused")
       /\ ENABLED (PostUnpause /\ ~marker' /\ notices'[Len(notices')] = "unpaused")

C33_LoopStep ==
  /\ (agent.pc \in {"top", "idle"} /\ marker /\ agent' # agent)
       => /\ agent'.pc = "idle"
          /\ agent'.turn = agent.turn /\ agent'.infers = agent.infers
  /\ (agent'.pc = "turn" /\ agent.pc # "turn") => ~marker
  /\ agent'.turn # agent.turn
       => agent.pc \in {"top", "idle"} /\ agent'.pc = "turn"
  /\ agent'.infers # agent.infers => agent.pc = "infer"

\* C33: POST /pause leaves the marker present and publishes paused, POST
\* /unpause leaves it absent and publishes unpaused, also when it was absent
\* before; the loop that finds the marker present at its top makes no step
\* but to idle, and a turn (executor run, inference request) begins only by
\* a step taken with the marker absent.
C33_PauseStopsNewTurns ==
  /\ [][C33_CallStep /\ C33_LoopStep]_vars
  /\ []C33_CallsAnswer

C33_Witness ==
  /\ agent.pc = "idle" /\ marker
  /\ agent.turn >= 1 /\ agent.infers >= 1
  /\ notices = <<"unpaused", "paused">>

\* C34: a decision call is applied only to an item of the stage its caller
\* addressed: a call sent for the request stage of an exchange never
\* releases that exchange's response-stage item, however the call
\* interleaves with the worker's passage from one stage to the next.
C34_DecisionKeepsToItsStage ==
  \A t \in Threads :
    (thr[t].prog = "decide" /\ thr[t].target[2] = "request")
      => thr[t].found[2] # "response"

\* a second call for the request stage, made after a first one released that
\* stage, has released the response-stage item while its worker waits on it
C34_DuplicateReleasesResponse ==
  \E t \in Threads, w \in LockWorkers :
    /\ thr[t].prog = "decide" /\ thr[t].target = <<w, "request">>
    /\ thr[t].found = <<w, "response">>
    /\ <<w, "request">> \in released
    /\ Stmt(w) = St("wait", "response")

\* the handler of exchange e has returned or has ended with a 500
Finished(x) == x.pc \in {"done", "failed"}

\* C35: once the handler of an exchange has finished, by writing its
\* response or by an exception answered with 500, the registry holds no item
\* of that exchange and the index slot of its id is not of kind pending.
C35_NoOrphanedItem ==
  \A e \in W :
    Finished(ex[e])
      => /\ \A id \in Ids : pending[id] = NoRef \/ pending[id][1] # e
         /\ \A i \in 1..Len(turn_index) :
              turn_index[i].id = ex[e].req_id => turn_index[i].kind # "pending"

\* a handler that returned its response has left neither
C35_CleanAfterReturn ==
  \A e \in W :
    ex[e].pc = "done"
      => /\ \A id \in Ids : pending[id] = NoRef \/ pending[id][1] # e
         /\ \A i \in 1..Len(turn_index) :
              turn_index[i].id = ex[e].req_id => turn_index[i].kind # "pending"

\* a handler ended with 500 while its response-stage item is registered
C35_OrphanAfter500 ==
  \E e \in W :
    /\ ex[e].pc = "failed"
    /\ pending[ex[e].req_id] = Ref(e, "response")

\* the parts of C36: the two locks are never nested, the only thing done
\* under a lock is the body of its with-block, a held lock can be released
C36_NeverBoth ==
  \A t \in AllThreads : ~(lock = t /\ sse_lock = t)

C36_OnlyBodiesUnderLock ==
  \A t \in AllThreads :
    /\ lock = t => Stmt(t).op = "release"
    /\ sse_lock = t => Stmt(t).op = "sse_release"
    /\ Stmt(t).op \in {"wait", "call", "put", "acquire", "sse_acquire", "end"}
         => lock # t /\ sse_lock # t

C36_HolderCanRelease ==
  /\ lock # 0 => ENABLED Release(lock)
  /\ sse_lock # 0 => ENABLED SseRelease(sse_lock)
  /\ (\E t \in MeshThreads : Stmt(t).op \in {"acquire", "sse_acquire"}) => ENABLED NextMesh

\* C36: no thread holds STATE.lock and STATE.sse_lock together, no thread
\* waits, calls out or broadcasts while it holds either, and whoever holds a
\* lock can release it: proxy workers, decision and listing calls,
\* observers, heartbeat and supervisor never block each other for good.
C36_NoDeadlockOnLocks ==
  C36_NeverBoth /\ C36_OnlyBodiesUnderLock /\ C36_HolderCanRelease

C36_Witness ==
  /\ lock = Aux /\ thr[Aux].prog = "run_main"
  /\ sse_lock = Decider
  /\ Stmt(1).op = "acquire"
  /\ Stmt(Lister).op = "acquire"

\* the last-observed texts a continuity check can have been made against
PrevTexts == {<<>>} \cup {<<t>> : t \in {TA, TAB, TNo, Empty}}

\* the bytes of raw with the streaming flag left out of account
Unflagged(raw) == [raw EXCEPT !.s = ""]

\* the recorded check is a check of the recorded request
C37_CheckMatchesRecordedRequest ==
  \A i \in 1..Len(ledger) :
    \E prev \in PrevTexts :
      ledger[i].sst_check = SstCheck(prev, ledger[i].request.user_text)

\* C37: the request a Turn records, raw and parsed, is the request that was
\* forwarded to the backend (the operator's replacement after edit_request),
\* and the continuity check the Turn records is a check of that request.
C37_TurnRecordsForwardedRequest ==
  /\ \A i \in 1..Len(ledger), e \in W :
       (ex[e].pc \in {"reply", "done"} /\ ex[e].req_id = ledger[i].turn_id
          /\ ex[e].sent # <<>>)
         => /\ Unflagged(ledger[i].request_raw) = Unflagged(ex[e].sent[1])
            /\ ledger[i].request = ParseReq(ledger[i].request_raw)
  /\ C37_CheckMatchesRecordedRequest

\* without a replacement the Turn records the forwarded request
C37_UneditedTurnRecordsRequest ==
  \A i \in 1..Len(ledger), e \in W :
    (ex[e].pc \in {"reply", "done"} /\ ex[e].req_id = ledger[i].turn_id
       /\ ex[e].sent # <<>> /\ Unflagged(ex[e].sent[1]) # Unflagged(EditedRequest))
      => /\ Unflagged(ledger[i].request_raw) = Unflagged(ex[e].sent[1])
         /\ ledger[i].request = ParseReq(ledger[i].request_raw)

\* the parts of C38: the step of a call that finds no item, and where the
\* broadcast of a call is reached
NoItem == <<0, "none">>

C38_MissStep ==
  \A t \in AllThreads :
    (thr[t].prog = "decide" /\ lock = t /\ Stmt(t) = St("release", "decide")
       /\ Lookup(thr[t].target, registered) = {} /\ thr'[t] # thr[t])
      => /\ released' = released
         /\ registered' = registered
         /\ thr'[t].found = NoItem
         /\ thr'[t].pc = Len(DecideProgram) + 1
         /\ \A u \in AllThreads : u # t => thr'[u] = thr[u]

C38_PublishesOnlyFound ==
  \A t \in AllThreads :
    (thr[t].prog = "decide" /\ thr[t].pc > 2 /\ thr[t].pc <= Len(DecideProgram))
      => /\ thr[t].found # NoItem
         /\ thr[t].found \in released

\* C38: a decision call for an id under which nothing is registered (never
\* registered, not yet, or removed already) sets no event, changes no item
\* and returns without publishing pending_updated.
C38_UnknownIdIsNoOp ==
  [][C38_MissStep]_vars /\ []C38_PublishesOnlyFound

C38_Witness ==
  /\ thr[Decider].prog = "decide" /\ Stmt(Decider).op = "end"
  /\ thr[Decider].found = NoItem /\ thr[Decider].target = <<1, "request">>
  /\ released = {}
  /\ <<1, "request">> \in registered

\* the same on the registry itself: pending_updated is published, and an
\* item written to, only for an id that is registered
C38_OnlyRegisteredIdsDecided ==
  [][/\ \A pid \in Ids : (pending[pid] = NoRef /\ pid \in updated') => pid \in updated
     /\ \A e \in W, stage \in {"request", "response"} :
          Decided(items[e][stage], items'[e][stage])
            => \E id \in Ids : pending[id] = Ref(e, stage)]_vars

\* the broadcasts thread t has made in its program so far
PutsDone(t) ==
  LET prog == ProgramOf(thr[t].prog) IN
  Cardinality({i \in 1..Len(prog) : i < thr[t].pc /\ prog[i].op = "put"})

\* the broadcasts a worker's program makes up to its wait of a stage
PutsUpToWait(prog, stage) ==
  LET k == CHOOSE i \in 1..Len(prog) : prog[i] = St("wait", stage)
  IN Cardinality({i \in 1..k : prog[i].op = "put"})

\* worker w has published an event after waking from its wait of a stage
PublishedAfterWaking(w, stage) ==
  /\ thr[w].prog \in {"sync", "stream"}
  /\ PutsDone(w) > PutsUpToWait(ProgramOf(thr[w].prog), stage)

\* the decision call of thread t has set the event of an item and has yet
\* to put its pending_updated on the observers' queues
UpdateOwed(t) ==
  /\ thr[t].prog = "decide" /\ thr[t].found # NoItem
  /\ Stmt(t).op \in {"sse_acquire", "sse_release", "put"}

\* C39: the pending_updated of a stage is on the observers' queues before
\* anything the worker publishes after waking from that stage: while a
\* decision call still owes its pending_updated, the worker it released has
\* published nothing since its wait (no response-stage pending_created, no
\* stream_delta, no turn_completed).
C39_UpdatedBeforeWorkerEvents ==
  \A t \in AllThreads :
    UpdateOwed(t) => ~PublishedAfterWaking(thr[t].found[1], thr[t].found[2])

\* the worker has published turn_completed and ended while the
\* pending_updated of its last stage is still owed
C39_UpdatedAfterCompleted ==
  \E t \in AllThreads :
    /\ UpdateOwed(t) /\ thr[t].found = <<1, "response">>
    /\ Stmt(1).op = "end"

\* the parts of C40: the streak after a turn's executor run, the reset on
\* resume, the turn on which the limit is reached, the idle loop after it
C40_StreakStep ==
  (agent.pc = "turn" /\ agent' # agent)
    => /\ (~agent'.executed /\ agent'.malformed) => agent'.fails = agent.fails + 1
       /\ agent'.executed => agent'.fails = 0
       /\ (~agent'.executed /\ ~agent'.malformed) => agent'.fails = agent.fails

C40_ResumeStep ==
  /\ (agent.pc = "idle" /\ agent' # agent) => (~marker /\ agent'.fails = 0)
  /\ agent'.fails # agent.fails => agent.pc \in {"turn", "idle"}

C40_LimitStep ==
  (agent.pc = "turn" /\ agent' # agent /\ agent'.fails >= FailLimit)
    => /\ marker'
       /\ agent'.pc = "top"
       /\ agent'.infers = agent.infers

C40_IdleStep ==
  (agent.pc = "top" /\ marker /\ agent' # agent)
    => /\ agent'.pc = "idle"
       /\ agent'.turn = agent.turn /\ agent'.fails = agent.fails

C40_NoInferenceAtLimit ==
  agent.pc = "infer" => agent.fails < FailLimit

\* C40: a turn with malformed calls and no executed action adds one to the
\* failure streak, a turn with an executed action and the resume from pause
\* set it to zero; on the turn that leaves the streak at 8 or more the loop
\* writes the pause marker and sends no inference request, and at its top it
\* then idles for as long as the marker is there.
C40_FailureStreakPauses ==
  /\ [][C40_StreakStep /\ C40_ResumeStep /\ C40_LimitStep /\ C40_IdleStep]_vars
  /\ []C40_NoInferenceAtLimit

C40_Witness ==
  /\ agent.pc = "idle" /\ marker /\ notices = <<>>
  /\ agent.fails = FailLimit /\ agent.turn >= 2
  /\ agent.malformed /\ ~agent.executed

====
